---- MODULE Spec2Model ----
(***************************************************************************)
(* Live round lifecycle and scoring engine of the trivia backend           *)
(* (src/server.js, lines 1-977).  Every request handler of the server is   *)
(* an async function run by a single-threaded event loop: the code between *)
(* two awaits runs atomically, and other handlers run while one is         *)
(* suspended.  Each action below is one such atomic segment.  Consecutive  *)
(* awaits with no access to the in-memory state between them are one       *)
(* suspension point.  A storage operation takes effect at the step that    *)
(* resumes the handler awaiting it.                                        *)
(*                                                                         *)
(* null is 0 (ids are positive) and NoQuestion for the round object.       *)
(* Response margins are counted in half units (a margin of 700 is 1400),   *)
(* so that Math.floor is not the identity.                                 *)
(***************************************************************************)
EXTENDS Integers, Sequences, FiniteSets, Bags, TLC

\* ------------------------------------------------------------------ bounds
\* control commands (activate, next-question, deactivate) issued in a run
MaxCommands == 4
\* submit-answer events issued in a run
MaxSubmits == 2
\* commands and submit-answer events in a run of the identity specification
MaxIdentityCommands == 3
MaxIdentitySubmits == 2
\* commands and storage failures in a run of the specification of failing closes
MaxCloseCommands == 3
MaxCloseFaults == 2
\* identities that may have an answer in the round handed to calculateRoundResults
MaxAnswers == 3
\* control commands of a quiz run with the control panel
MaxPanelCommands == 3
\* control commands of a quiz run with a refused activate
MaxActivateCommands == 4
\* control commands of a quiz run with unusual response times
MaxMarginCommands == 4
\* submissions of that run
MaxMarginSubmits == 2
\* submit-answer and merge-user events of the viewers of one round
MaxViewerEvents == 3
MaxSameEvents == 3
\* cumulative scores reach MaxScoreSteps times 150 points either way
MaxScoreSteps == 2
\* storage operations that fail in a run
MaxFaults == 1
\* storage operations that fail in the close of a round with drawn answers
MaxBatchFaults == 1

\* ------------------------------------------------------------- program data
GRACE_PERIOD_SECONDS == 5

\* quiz_questions JOIN questions, ORDER BY display_order: quiz id -> rows
QuizQuestions ==
    (1 :> << [id |-> 11, correct_option |-> 2, time_limit |-> 10],
             [id |-> 12, correct_option |-> 3, time_limit |-> 20] >>)
 @@ (2 :> << [id |-> 21, correct_option |-> 0, time_limit |-> 10] >>)

Sockets == {"s1", "s2"}

\* opaque viewer keys, as character sequences: an anonymous key starts with U
Keys == { <<"U", "a">>, <<"7", "1">> }

\* ------------------------------------------------------------------- state
VARIABLES
    currentQuizSession,         \* server.js:120
    answers,                    \* heap of the answers objects, one per opened round
    timers,                     \* pending setTimeout handles (the round each was armed for)
    instances,                  \* table quiz_instances
    responses,                  \* table responses
    users,                      \* table users
    nextUserId,                 \* users.id SERIAL
    socketUserMap,              \* server.js:14, socket -> session object
    sessionObjects,             \* heap of the session objects held by socketUserMap
    usedAnonymousNumbers,       \* server.js:15
    nextAnonymousNumber,        \* server.js:16
    controlPanelSocketId,       \* server.js:640
    activeParticipantSocketIds, \* server.js:641
    socketState,                \* each socket: "new", "open" or "closed"
    log,                        \* bag of the events emitted and errors raised
    activateCalls,              \* suspended POST /api/quiz/activate handlers
    nextQuestionCalls,          \* suspended POST /api/quiz/next-question handlers
    deactivateCalls,            \* suspended POST /api/quiz/deactivate handlers
    endRoundCalls,              \* suspended endRound invocations
    submitCalls,                \* suspended submit-answer handlers
    mergeCalls,                 \* suspended mergeInMemoryData invocations
    mergeUserCalls,             \* suspended merge-user handlers
    issued,                     \* how many requests of each kind were issued, how many
                                \* endRound calls passed (fired) or returned at (ignored)
                                \* the guard of server.js:550
    quota                       \* how many requests of each kind a run issues

vars == << currentQuizSession, answers, timers, instances, responses, users,
           nextUserId, socketUserMap, sessionObjects, usedAnonymousNumbers,
           nextAnonymousNumber, controlPanelSocketId, activeParticipantSocketIds,
           socketState, log, activateCalls, nextQuestionCalls, deactivateCalls,
           endRoundCalls, submitCalls, mergeCalls, mergeUserCalls, issued, quota >>

sessionVars == << currentQuizSession, answers, timers >>
storeVars == << instances, responses, users, nextUserId >>
identityVars == << socketUserMap, sessionObjects, usedAnonymousNumbers, nextAnonymousNumber >>
socketVars == << controlPanelSocketId, activeParticipantSocketIds, socketState >>
callVars == << activateCalls, nextQuestionCalls, deactivateCalls, endRoundCalls,
               submitCalls, mergeCalls, mergeUserCalls >>

\* ----------------------------------------------------------------- helpers
Put(f, k, v) == [x \in DOMAIN f \cup {k} |-> IF x = k THEN v ELSE f[x]]
Remove(f, k) == [x \in DOMAIN f \ {k} |-> f[x]]
Has(f, k) == k \in DOMAIN f

RECURSIVE BagOfSeq(_)
BagOfSeq(es) == IF es = <<>> THEN EmptyBag ELSE SetToBag({Head(es)}) (+) BagOfSeq(Tail(es))

\* the events a step emits, the replies it sends and the errors it raises
Emit(es) == log' = log (+) BagOfSeq(es)
EventsIn(b, type) == { e \in BagToSet(b) : e.type = type }
Events(type) == EventsIn(log, type)

RECURSIVE SumCopies(_, _)
SumCopies(b, S) ==
    IF S = {} THEN 0
    ELSE LET e == CHOOSE x \in S : TRUE IN CopiesIn(e, b) + SumCopies(b, S \ {e})

\* how many events of a type were emitted
CountIn(b, type) == SumCopies(b, EventsIn(b, type))
Count(type) == CountIn(log, type)

Reply(route, status) == [type |-> "reply", route |-> route, status |-> status]
Uncaught(where) == [type |-> "uncaught", where |-> where]

\* a setTimeout handle: the round it was armed for and its delay; NoTimer is null
NoTimer == [round |-> 0, delay |-> 0]

NoQuestion ==
    [id |-> 0, round |-> 0, correct_option |-> 0, time_limit |-> 0,
     receivedAnswerCount |-> 0, expectedAnswerCount |-> 0]

\* server.js:120-127 and 479-486
EmptySession ==
    [quizId |-> 0, quizInstanceId |-> 0, questionIndex |-> 0, userScores |-> <<>>,
     currentQuestion |-> NoQuestion, submissionWindowTimeout |-> NoTimer]

\* server.js:374-381: the object literal of activate has no submissionWindowTimeout
ActivatedSession(quizId, instanceId) ==
    [quizId |-> quizId, quizInstanceId |-> instanceId, questionIndex |-> 0,
     userScores |-> <<>>, currentQuestion |-> NoQuestion,
     submissionWindowTimeout |-> NoTimer]

\* the answers object of the open round
CurrentAnswers == answers[currentQuizSession.currentQuestion.round]

\* clearTimeout(h): a null or an already fired handle clears nothing
ClearTimeout(ts, h) == ts \ {h}

Init ==
    /\ currentQuizSession = EmptySession
    /\ answers = <<>>
    /\ timers = {}
    /\ instances = <<>>
    /\ responses = {}
    /\ users = {}
    /\ nextUserId = 1
    /\ socketUserMap = <<>>
    /\ sessionObjects = <<>>
    /\ usedAnonymousNumbers = {}
    /\ nextAnonymousNumber = 1
    /\ controlPanelSocketId = ""
    /\ activeParticipantSocketIds = {}
    /\ socketState = [s \in Sockets |-> "new"]
    /\ log = EmptyBag
    /\ activateCalls = {}
    /\ nextQuestionCalls = {}
    /\ deactivateCalls = {}
    /\ endRoundCalls = {}
    /\ submitCalls = {}
    /\ mergeCalls = {}
    /\ mergeUserCalls = {}
    /\ issued = [cmd |-> 0, sub |-> 0, faults |-> 0, fired |-> 0, ignored |-> 0]

\* a storage operation may fail while the run's fault quota lasts
CanFail == issued.faults < quota.faults
Fault == issued' = [issued EXCEPT !.faults = @ + 1]

\* --------------------------------------------------------------- scoring
\* for (const userId in answers): integer keys are visited in ascending order
RECURSIVE IterationOrder(_)
IterationOrder(S) ==
    IF S = {} THEN <<>>
    ELSE LET m == CHOOSE x \in S : \A y \in S : x <= y
         IN  <<m>> \o IterationOrder(S \ {m})

\* Math.floor of a number given in half units
Floor(halves) == halves \div 2

\* mutant of Points: a wrong answer scores nothing
PointsWrongIsZero(answer, correctOption) ==
    IF answer.selectedOption = -1 THEN Floor(0)
    ELSE IF correctOption = answer.selectedOption THEN Floor(answer.responseTime)
    ELSE Floor(0)

\* server.js:524-536 and 542
Points(answer, correctOption) ==
    IF answer.selectedOption = -1 THEN Floor(0)
    ELSE IF correctOption = answer.selectedOption THEN Floor(answer.responseTime)
    ELSE Floor(0 - answer.responseTime)

\* mutant of InsertByPoints: an entry goes before the entries with its points
InsertBeforeEqualPoints(sorted, r) ==
    SelectSeq(sorted, LAMBDA e : e.points > r.points) \o << r >>
        \o SelectSeq(sorted, LAMBDA e : e.points <= r.points)

\* Array.prototype.sort((a, b) => b.points - a.points) is stable: one insertion
InsertByPoints(sorted, r) ==
    SelectSeq(sorted, LAMBDA e : e.points >= r.points) \o << r >>
        \o SelectSeq(sorted, LAMBDA e : e.points < r.points)

RECURSIVE SortByPoints(_)
SortByPoints(rs) ==
    IF rs = <<>> THEN <<>>
    ELSE InsertByPoints(SortByPoints(SubSeq(rs, 1, Len(rs) - 1)), rs[Len(rs)])

\* server.js:519-547
calculateRoundResults(as, correctOption) ==
    LET order == IterationOrder(DOMAIN as)
        roundResults == [k \in 1..Len(order) |->
            [userId |-> order[k],
             twitchUserId |-> as[order[k]].twitchUserId,
             displayName |-> as[order[k]].displayName,
             points |-> Points(as[order[k]], correctOption)]]
    IN  SortByPoints(roundResults)

VoteOptions == {0, 1, 2, 3, -1}

\* mutant of optionVoteCounts: an option without a bucket counts as no answer
optionVoteCountsFoldsUnexpected(as) ==
    [o \in VoteOptions |->
        Cardinality({u \in DOMAIN as :
                        \/ as[u].selectedOption = o
                        \/ o = -1 /\ as[u].selectedOption \notin VoteOptions})]

\* server.js:561-571 and 915-922
optionVoteCounts(as) ==
    [o \in VoteOptions |-> Cardinality({u \in DOMAIN as : as[u].selectedOption = o})]

\* ------------------------------------------------------ session controller
\* mutant of resetQuizSession: the pending timeout is not cleared
resetQuizSessionKeepsTimer ==
    /\ currentQuizSession' = EmptySession
    /\ UNCHANGED << answers, timers >>

\* server.js:475-488
resetQuizSession ==
    /\ timers' = ClearTimeout(timers, currentQuizSession.submissionWindowTimeout)
    /\ currentQuizSession' = EmptySession
    /\ UNCHANGED answers

\* server.js:344-357: the request is accepted and BEGIN is awaited
ActivateRequest(q) ==
    /\ issued.cmd < quota.cmd
    /\ issued' = [issued EXCEPT !.cmd = @ + 1]
    /\ IF q = 0
       THEN /\ Emit(<< Reply("activate", 400) >>)
            /\ UNCHANGED << sessionVars, activateCalls >>
       ELSE /\ IF currentQuizSession.quizId # 0
               THEN resetQuizSession
               ELSE UNCHANGED sessionVars
            /\ activateCalls' = activateCalls \cup
                   {[id |-> issued.cmd + 1, quizId |-> q, pc |-> "txn"]}
            /\ UNCHANGED log
    /\ UNCHANGED << storeVars, identityVars, socketVars, nextQuestionCalls,
                    deactivateCalls, endRoundCalls, submitCalls, mergeCalls,
                    mergeUserCalls, quota >>

\* server.js:357-383: BEGIN, UPDATE quizzes and INSERT quiz_instances have
\* returned; the session object is replaced and COMMIT is awaited
ActivateInstance(c) ==
    /\ c \in activateCalls /\ c.pc = "txn"
    /\ c.quizId \in DOMAIN QuizQuestions
    /\ instances' = Append(instances, [quiz_id |-> c.quizId, ended |-> FALSE])
    /\ currentQuizSession' = ActivatedSession(c.quizId, Len(instances) + 1)
    /\ activateCalls' = (activateCalls \ {c}) \cup {[c EXCEPT !.pc = "commit"]}
    /\ UNCHANGED << answers, timers, responses, users, nextUserId, identityVars,
                    socketVars, log, nextQuestionCalls, deactivateCalls,
                    endRoundCalls, submitCalls, mergeCalls, mergeUserCalls, issued, quota >>

\* server.js:363-366: no quiz has the id
ActivateNotFound(c) ==
    /\ c \in activateCalls /\ c.pc = "txn"
    /\ c.quizId \notin DOMAIN QuizQuestions
    /\ activateCalls' = activateCalls \ {c}
    /\ Emit(<< Reply("activate", 404) >>)
    /\ UNCHANGED << sessionVars, storeVars, identityVars, socketVars,
                    nextQuestionCalls, deactivateCalls, endRoundCalls,
                    submitCalls, mergeCalls, mergeUserCalls, issued, quota >>

\* server.js:383-387: COMMIT has returned
ActivateCommit(c) ==
    /\ c \in activateCalls /\ c.pc = "commit"
    /\ activateCalls' = activateCalls \ {c}
    /\ Emit(<< [type |-> "quiz-ready", to |-> "all", quizId |-> c.quizId],
               Reply("activate", 200) >>)
    /\ UNCHANGED << sessionVars, storeVars, identityVars, socketVars,
                    nextQuestionCalls, deactivateCalls, endRoundCalls,
                    submitCalls, mergeCalls, mergeUserCalls, issued, quota >>

\* server.js:389-393: a query of the handler has thrown
ActivateFail(c) ==
    /\ c \in activateCalls
    /\ CanFail /\ Fault
    /\ activateCalls' = activateCalls \ {c}
    /\ Emit(<< Reply("activate", 500) >>)
    /\ UNCHANGED << sessionVars, storeVars, identityVars, socketVars,
                    nextQuestionCalls, deactivateCalls, endRoundCalls,
                    submitCalls, mergeCalls, mergeUserCalls, quota >>

\* server.js:397-411: the request is accepted, or rejected when no quiz is active
NextQuestionRequest ==
    /\ issued.cmd < quota.cmd
    /\ issued' = [issued EXCEPT !.cmd = @ + 1]
    /\ IF currentQuizSession.quizId = 0
       THEN /\ Emit(<< Reply("next-question", 400) >>)
            /\ UNCHANGED nextQuestionCalls
       ELSE /\ nextQuestionCalls' = nextQuestionCalls \cup
                   {[id |-> issued.cmd + 1, quizId |-> currentQuizSession.quizId]}
            /\ UNCHANGED log
    /\ UNCHANGED << sessionVars, storeVars, identityVars, socketVars, activateCalls,
                    deactivateCalls, endRoundCalls, submitCalls, mergeCalls,
                    mergeUserCalls, quota >>

\* the handle setTimeout returns for the round being opened (server.js:458-465)
NewTimer(round, question) ==
    [round |-> round, delay |-> (question.time_limit + GRACE_PERIOD_SECONDS) * 1000]

\* server.js:413-423: the question index is past the list
NextQuestionFinish(c) ==
    /\ c \in nextQuestionCalls
    /\ currentQuizSession.questionIndex >= Len(QuizQuestions[c.quizId])
    /\ nextQuestionCalls' = nextQuestionCalls \ {c}
    /\ Emit(<< [type |-> "show-final-results", to |-> "all",
                instance |-> currentQuizSession.quizInstanceId,
                finalScores |-> currentQuizSession.userScores],
               Reply("next-question", 200) >>)
    /\ UNCHANGED << sessionVars, storeVars, identityVars, socketVars, activateCalls,
                    deactivateCalls, endRoundCalls, submitCalls, mergeCalls, mergeUserCalls,
                    issued, quota >>

\* mutant of NextQuestionOpen: the control panel's copy of the question goes to all
NextQuestionOpenTellsAll(c) ==
    /\ c \in nextQuestionCalls
    /\ currentQuizSession.questionIndex < Len(QuizQuestions[c.quizId])
    /\ LET nextQuestion == QuizQuestions[c.quizId][currentQuizSession.questionIndex + 1]
           round == Len(answers) + 1
           timer == NewTimer(round, nextQuestion)
           questionForClients ==
               [type |-> "start-question", to |-> "all",
                round |-> round, instance |-> currentQuizSession.quizInstanceId,
                quizId |-> currentQuizSession.quizId, id |-> nextQuestion.id,
                timeLimit |-> nextQuestion.time_limit]
           questionForControlPanel ==
               [type |-> "start-question-control-panel", to |-> "all",
                quizId |-> currentQuizSession.quizId, id |-> nextQuestion.id,
                timeLimit |-> nextQuestion.time_limit,
                correctOption |-> nextQuestion.correct_option]
       IN  /\ answers' = Append(answers, <<>>)
           /\ currentQuizSession' =
                  [currentQuizSession EXCEPT
                     !.currentQuestion =
                         [id |-> nextQuestion.id, round |-> round,
                          correct_option |-> nextQuestion.correct_option,
                          time_limit |-> nextQuestion.time_limit,
                          receivedAnswerCount |-> 0,
                          expectedAnswerCount |-> Cardinality(activeParticipantSocketIds)],
                     !.questionIndex = @ + 1,
                     !.submissionWindowTimeout = timer]
           /\ timers' = ClearTimeout(timers, currentQuizSession.submissionWindowTimeout)
                            \cup {timer}
           /\ Emit(<< questionForClients >>
                   \o (IF controlPanelSocketId # "" THEN << questionForControlPanel >>
                       ELSE << >>)
                   \o << Reply("next-question", 200) >>)
    /\ nextQuestionCalls' = nextQuestionCalls \ {c}
    /\ UNCHANGED << storeVars, identityVars, socketVars, activateCalls,
                    deactivateCalls, endRoundCalls, submitCalls, mergeCalls, mergeUserCalls,
                    issued, quota >>

\* server.js:425-467: the round is opened
NextQuestionOpen(c) ==
    /\ c \in nextQuestionCalls
    /\ currentQuizSession.questionIndex < Len(QuizQuestions[c.quizId])
    /\ LET nextQuestion == QuizQuestions[c.quizId][currentQuizSession.questionIndex + 1]
           round == Len(answers) + 1
           timer == NewTimer(round, nextQuestion)
           questionForClients ==
               [type |-> "start-question", to |-> "all",
                round |-> round, instance |-> currentQuizSession.quizInstanceId,
                quizId |-> currentQuizSession.quizId, id |-> nextQuestion.id,
                timeLimit |-> nextQuestion.time_limit]
           questionForControlPanel ==
               [type |-> "start-question-control-panel", to |-> controlPanelSocketId,
                quizId |-> currentQuizSession.quizId, id |-> nextQuestion.id,
                timeLimit |-> nextQuestion.time_limit,
                correctOption |-> nextQuestion.correct_option]
       IN  /\ answers' = Append(answers, <<>>)
           /\ currentQuizSession' =
                  [currentQuizSession EXCEPT
                     !.currentQuestion =
                         [id |-> nextQuestion.id, round |-> round,
                          correct_option |-> nextQuestion.correct_option,
                          time_limit |-> nextQuestion.time_limit,
                          receivedAnswerCount |-> 0,
                          expectedAnswerCount |-> Cardinality(activeParticipantSocketIds)],
                     !.questionIndex = @ + 1,
                     !.submissionWindowTimeout = timer]
           /\ timers' = ClearTimeout(timers, currentQuizSession.submissionWindowTimeout)
                            \cup {timer}
           /\ Emit(<< questionForClients >>
                   \o (IF controlPanelSocketId # "" THEN << questionForControlPanel >>
                       ELSE << >>)
                   \o << Reply("next-question", 200) >>)
    /\ nextQuestionCalls' = nextQuestionCalls \ {c}
    /\ UNCHANGED << storeVars, identityVars, socketVars, activateCalls,
                    deactivateCalls, endRoundCalls, submitCalls, mergeCalls, mergeUserCalls,
                    issued, quota >>

\* server.js:469-472: the query has thrown
NextQuestionFail(c) ==
    /\ c \in nextQuestionCalls
    /\ CanFail /\ Fault
    /\ nextQuestionCalls' = nextQuestionCalls \ {c}
    /\ Emit(<< Reply("next-question", 500) >>)
    /\ UNCHANGED << sessionVars, storeVars, identityVars, socketVars, activateCalls,
                    deactivateCalls, endRoundCalls, submitCalls, mergeCalls,
                    mergeUserCalls, quota >>

\* mutant of DeactivateRequest: the rejection leaves the session as it is
DeactivateRequestKeepsState ==
    /\ issued.cmd < quota.cmd
    /\ issued' = [issued EXCEPT !.cmd = @ + 1]
    /\ IF currentQuizSession.quizId = 0
       THEN /\ UNCHANGED sessionVars
            /\ Emit(<< Reply("deactivate", 400) >>)
            /\ UNCHANGED deactivateCalls
       ELSE /\ deactivateCalls' = deactivateCalls \cup
                   {[id |-> issued.cmd + 1, quizId |-> currentQuizSession.quizId,
                     quizInstanceId |-> currentQuizSession.quizInstanceId]}
            /\ UNCHANGED << sessionVars, log >>
    /\ UNCHANGED << storeVars, identityVars, socketVars, activateCalls,
                    nextQuestionCalls, endRoundCalls, submitCalls, mergeCalls,
                    mergeUserCalls, quota >>

\* server.js:490-503: rejected when no quiz is active, else UPDATE is awaited
DeactivateRequest ==
    /\ issued.cmd < quota.cmd
    /\ issued' = [issued EXCEPT !.cmd = @ + 1]
    /\ IF currentQuizSession.quizId = 0
       THEN /\ resetQuizSession
            /\ Emit(<< Reply("deactivate", 400) >>)
            /\ UNCHANGED deactivateCalls
       ELSE /\ deactivateCalls' = deactivateCalls \cup
                   {[id |-> issued.cmd + 1, quizId |-> currentQuizSession.quizId,
                     quizInstanceId |-> currentQuizSession.quizInstanceId]}
            /\ UNCHANGED << sessionVars, log >>
    /\ UNCHANGED << storeVars, identityVars, socketVars, activateCalls,
                    nextQuestionCalls, endRoundCalls, submitCalls, mergeCalls,
                    mergeUserCalls, quota >>

\* mutant of DeactivateFinish: the session is reset before quiz-end is emitted
DeactivateFinishClearsFirst(c) ==
    /\ c \in deactivateCalls
    /\ deactivateCalls' = deactivateCalls \ {c}
    /\ instances' = IF c.quizInstanceId # 0
                    THEN [instances EXCEPT ![c.quizInstanceId].ended = TRUE]
                    ELSE instances
    /\ Emit(<< [type |-> "quiz-end", to |-> "all",
                round |-> currentQuizSession.currentQuestion.round,
                finalScores |-> EmptySession.userScores, manualStop |-> TRUE],
               Reply("deactivate", 200) >>)
    /\ resetQuizSession
    /\ UNCHANGED << responses, users, nextUserId, identityVars, socketVars,
                    activateCalls, nextQuestionCalls, endRoundCalls, submitCalls,
                    mergeCalls, mergeUserCalls, issued, quota >>

\* server.js:502-511: the end time is stored, quiz-end is emitted, the session reset
DeactivateFinish(c) ==
    /\ c \in deactivateCalls
    /\ deactivateCalls' = deactivateCalls \ {c}
    /\ instances' = IF c.quizInstanceId # 0
                    THEN [instances EXCEPT ![c.quizInstanceId].ended = TRUE]
                    ELSE instances
    /\ Emit(<< [type |-> "quiz-end", to |-> "all",
                round |-> currentQuizSession.currentQuestion.round,
                finalScores |-> currentQuizSession.userScores, manualStop |-> TRUE],
               Reply("deactivate", 200) >>)
    /\ resetQuizSession
    /\ UNCHANGED << responses, users, nextUserId, identityVars, socketVars,
                    activateCalls, nextQuestionCalls, endRoundCalls, submitCalls,
                    mergeCalls, mergeUserCalls, issued, quota >>

\* server.js:513-516: the UPDATE has thrown
DeactivateFail(c) ==
    /\ c \in deactivateCalls
    /\ CanFail /\ Fault
    /\ deactivateCalls' = deactivateCalls \ {c}
    /\ Emit(<< Reply("deactivate", 500) >>)
    /\ UNCHANGED << sessionVars, storeVars, identityVars, socketVars, activateCalls,
                    nextQuestionCalls, endRoundCalls, submitCalls, mergeCalls,
                    mergeUserCalls, quota >>

\* ------------------------------------------------------- round state machine
\* the constraints of table responses (schema.sql:57-68) on an inserted row
InsertAccepted(row) ==
    /\ row.quiz_instance_id \in 1..Len(instances)
    /\ row.quiz_id \in DOMAIN QuizQuestions
    /\ \E u \in users : u.id = row.user_id

\* server.js:578-580: the next result whose answer is still in the answers object
NextAnswered(c, i) ==
    LET left == {k \in i..Len(c.results) : Has(answers[c.round], c.results[k].userId)}
    IN  IF left = {} THEN 0 ELSE CHOOSE k \in left : \A j \in left : k <= j

\* server.js:583-590
AddPoints(scores, result) ==
    LET entry == IF Has(scores, result.userId) THEN scores[result.userId]
                 ELSE [score |-> 0, twitchUserId |-> result.twitchUserId,
                       displayName |-> result.displayName]
    IN  Put(scores, result.userId, [entry EXCEPT !.score = @ + result.points])

\* server.js:597-606: the parameters of the INSERT, read from the session as it is now
ResponseRow(c, result) ==
    [quiz_instance_id |-> currentQuizSession.quizInstanceId,
     quiz_id |-> currentQuizSession.quizId,
     question_id |-> currentQuizSession.currentQuestion.id,
     user_id |-> result.userId,
     selected_option |-> answers[c.round][result.userId].selectedOption,
     response_time_ms |-> Floor(answers[c.round][result.userId].responseTime * 1000),
     score |-> result.points,
     is_correct |-> result.points > 0,
     round |-> c.round, batch |-> c.id]

\* server.js:578-609: the loop runs up to its next await.  The score of the next
\* answered result is added, then its INSERT is issued; reading the question id of
\* a round that is gone throws into the catch, which issues ROLLBACK; past the
\* last result COMMIT is issued
LoopSegment(was, c, i) ==
    LET k == NextAnswered(c, i)
    IN  IF k = 0
        THEN /\ endRoundCalls' = (endRoundCalls \ {was}) \cup {[c EXCEPT !.pc = "commit"]}
             /\ UNCHANGED currentQuizSession
        ELSE /\ currentQuizSession' =
                    [currentQuizSession EXCEPT !.userScores = AddPoints(@, c.results[k])]
             /\ endRoundCalls' = (endRoundCalls \ {was}) \cup
                    {IF currentQuizSession.currentQuestion = NoQuestion
                     THEN [c EXCEPT !.pc = "rollback"]
                     ELSE [c EXCEPT !.pc = "insert", !.i = k + 1,
                                    !.row = ResponseRow(c, c.results[k])]}

NoRow ==
    [quiz_instance_id |-> 0, quiz_id |-> 0, question_id |-> 0, user_id |-> 0,
     selected_option |-> 0, response_time_ms |-> 0, score |-> 0,
     is_correct |-> FALSE, round |-> 0, batch |-> 0]

\* server.js:563-571: console.warn for each answer whose option has no bucket
UnexpectedOptions(as) ==
    LET order == IterationOrder({u \in DOMAIN as : as[u].selectedOption \notin VoteOptions})
    IN  [k \in 1..Len(order) |->
            [type |-> "warn", where |-> "endRound",
             selectedOption |-> as[order[k]].selectedOption, userId |-> order[k]]]

\* server.js:549-574: endRound up to its first await
endRound(timer) ==
    IF currentQuizSession.quizId = 0 \/ currentQuizSession.currentQuestion = NoQuestion
    THEN /\ issued' = [issued EXCEPT !.ignored = @ + 1]
         /\ UNCHANGED << endRoundCalls, log >>
    ELSE /\ issued' = [issued EXCEPT !.fired = @ + 1]
         /\ Emit(UnexpectedOptions(CurrentAnswers))
         /\ endRoundCalls' = endRoundCalls \cup
                {[id |-> issued.fired + 1,
                  armedFor |-> timer.round,
                  before |-> currentQuizSession.userScores,
                  round |-> currentQuizSession.currentQuestion.round,
                  results |-> calculateRoundResults(CurrentAnswers,
                                  currentQuizSession.currentQuestion.correct_option),
                  votes |-> optionVoteCounts(CurrentAnswers),
                  i |-> 1, row |-> NoRow, rows |-> {}, pc |-> "begin"]}

\* server.js:462-465: the timeout of a round fires and calls endRound
TimerFire(timer) ==
    /\ timer \in timers
    /\ timers' = timers \ {timer}
    /\ endRound(timer)
    /\ UNCHANGED << currentQuizSession, answers, storeVars, identityVars, socketVars,
                    activateCalls, nextQuestionCalls, deactivateCalls,
                    submitCalls, mergeCalls, mergeUserCalls, quota >>

\* server.js:574-590: getClient and BEGIN have returned, the loop starts
EndRoundBegin(c) ==
    /\ c \in endRoundCalls /\ c.pc = "begin"
    /\ LoopSegment(c, c, 1)
    /\ UNCHANGED << answers, timers, storeVars, identityVars, socketVars, log,
                    activateCalls, nextQuestionCalls, deactivateCalls, submitCalls,
                    mergeCalls, mergeUserCalls, issued, quota >>

\* server.js:574: getClient has thrown, outside the try: endRound ends there
EndRoundNoClient(c) ==
    /\ c \in endRoundCalls /\ c.pc = "begin"
    /\ CanFail /\ Fault
    /\ endRoundCalls' = endRoundCalls \ {c}
    /\ Emit(<< Uncaught("endRound") >>)
    /\ UNCHANGED << sessionVars, storeVars, identityVars, socketVars, activateCalls,
                    nextQuestionCalls, deactivateCalls, submitCalls, mergeCalls,
                    mergeUserCalls, quota >>

\* server.js:597-607: an INSERT has returned, the loop goes on
EndRoundInsert(c) ==
    /\ c \in endRoundCalls /\ c.pc = "insert"
    /\ InsertAccepted(c.row)
    /\ LoopSegment(c, [c EXCEPT !.rows = @ \cup {c.row}], c.i)
    /\ UNCHANGED << answers, timers, storeVars, identityVars, socketVars, log,
                    activateCalls, nextQuestionCalls, deactivateCalls, submitCalls,
                    mergeCalls, mergeUserCalls, issued, quota >>

\* server.js:611-612: BEGIN, an INSERT or COMMIT has thrown: ROLLBACK is issued
EndRoundCatch(c) ==
    /\ c \in endRoundCalls /\ c.pc \in {"begin", "insert", "commit"}
    /\ \/ CanFail /\ Fault
       \/ c.pc = "insert" /\ ~InsertAccepted(c.row) /\ UNCHANGED issued
    /\ endRoundCalls' = (endRoundCalls \ {c}) \cup {[c EXCEPT !.pc = "rollback"]}
    /\ UNCHANGED << sessionVars, storeVars, identityVars, socketVars, log,
                    activateCalls, nextQuestionCalls, deactivateCalls, submitCalls,
                    mergeCalls, mergeUserCalls, quota >>

\* server.js:618-628: after the transaction.  Reading correct_option of a round
\* that is gone throws before anything is emitted
EndRoundClose(c, committed) ==
    IF currentQuizSession.currentQuestion = NoQuestion
    THEN /\ Emit(<< Uncaught("endRound") >>)
         /\ UNCHANGED << currentQuizSession, timers >>
    ELSE /\ Emit(<< [type |-> "round-end", to |-> "all",
                     round |-> c.round, batch |-> c.id, committed |-> committed,
                     question |-> currentQuizSession.currentQuestion.round,
                     roundResults |-> c.results,
                     userScores |-> currentQuizSession.userScores,
                     correctOption |-> currentQuizSession.currentQuestion.correct_option,
                     optionVoteCounts |-> c.votes] >>)
         /\ currentQuizSession' =
                [currentQuizSession EXCEPT !.currentQuestion = NoQuestion,
                                           !.submissionWindowTimeout = NoTimer]
         /\ timers' = ClearTimeout(timers, currentQuizSession.submissionWindowTimeout)

\* server.js:609-628: COMMIT has returned
EndRoundCommit(c) ==
    /\ c \in endRoundCalls /\ c.pc = "commit"
    /\ responses' = responses \cup c.rows
    /\ endRoundCalls' = endRoundCalls \ {c}
    /\ EndRoundClose(c, TRUE)
    /\ UNCHANGED << answers, instances, users, nextUserId, identityVars, socketVars,
                    activateCalls, nextQuestionCalls, deactivateCalls, submitCalls,
                    mergeCalls, mergeUserCalls, issued, quota >>

\* server.js:612-628: ROLLBACK has returned
EndRoundRollback(c) ==
    /\ c \in endRoundCalls /\ c.pc = "rollback"
    /\ endRoundCalls' = endRoundCalls \ {c}
    /\ EndRoundClose(c, FALSE)
    /\ UNCHANGED << answers, storeVars, identityVars, socketVars, activateCalls,
                    nextQuestionCalls, deactivateCalls, submitCalls, mergeCalls, mergeUserCalls,
                    issued, quota >>

\* server.js:612: ROLLBACK has thrown inside the catch: endRound ends there
EndRoundRollbackFail(c) ==
    /\ c \in endRoundCalls /\ c.pc = "rollback"
    /\ CanFail /\ Fault
    /\ endRoundCalls' = endRoundCalls \ {c}
    /\ Emit(<< Uncaught("endRound") >>)
    /\ UNCHANGED << sessionVars, storeVars, identityVars, socketVars, activateCalls,
                    nextQuestionCalls, deactivateCalls, submitCalls, mergeCalls,
                    mergeUserCalls, quota >>

\* --------------------------------------------------------------- transport
\* server.js:775-782
Connect(s) ==
    /\ socketState[s] = "new"
    /\ UNCHANGED issued
    /\ socketState' = [socketState EXCEPT ![s] = "open"]
    /\ activeParticipantSocketIds' =
           IF s # controlPanelSocketId THEN activeParticipantSocketIds \cup {s}
           ELSE activeParticipantSocketIds
    /\ UNCHANGED << sessionVars, storeVars, identityVars, controlPanelSocketId, log,
                    callVars, quota >>

\* server.js:784-792
RegisterControlPanel(s) ==
    /\ socketState[s] = "open"
    /\ s # controlPanelSocketId
    /\ activeParticipantSocketIds' = activeParticipantSocketIds \ {s}
    /\ controlPanelSocketId' = s
    /\ UNCHANGED << sessionVars, storeVars, identityVars, socketState, log,
                    callVars, issued, quota >>

\* the anonymousNumber of a session that has none (null)
NullNumber == 0 - 1

\* a null operand of Math.min is read as 0
ToNumber(x) == IF x = NullNumber THEN 0 ELSE x

\* Math.min(a, b)
Min(a, b) == IF a <= ToNumber(b) THEN a ELSE ToNumber(b)

\* server.js:942-962
Disconnect(s) ==
    /\ socketState[s] = "open"
    /\ socketState' = [socketState EXCEPT ![s] = "closed"]
    /\ LET session == IF Has(socketUserMap, s) THEN sessionObjects[socketUserMap[s]]
                      ELSE [dbUserId |-> 0, isAnonymous |-> FALSE,
                            anonymousNumber |-> NullNumber]
       IN  IF session.isAnonymous
           THEN /\ usedAnonymousNumbers' = usedAnonymousNumbers \ {session.anonymousNumber}
                /\ nextAnonymousNumber' = Min(nextAnonymousNumber, session.anonymousNumber)
           ELSE UNCHANGED << usedAnonymousNumbers, nextAnonymousNumber >>
    /\ socketUserMap' = Remove(socketUserMap, s)
    /\ IF s = controlPanelSocketId
       THEN controlPanelSocketId' = "" /\ UNCHANGED activeParticipantSocketIds
       ELSE /\ activeParticipantSocketIds' = activeParticipantSocketIds \ {s}
            /\ UNCHANGED controlPanelSocketId
    /\ UNCHANGED << sessionVars, storeVars, sessionObjects, log, callVars, issued, quota >>

\* ------------------------------------------------------- identity resolver
\* server.js:841: twitchUserId.startsWith('U')
IsAnonymousKey(key) == Len(key) > 0 /\ key[1] = "U"

\* display names: `User n` of an anonymous identity, the Twitch name of a key
AnonymousName(n) == [kind |-> "User", n |-> n, key |-> << >>]
\* server.js:69-112: the Twitch display name of a key or its fallback
getTwitchDisplayName(key) == [kind |-> "Twitch", n |-> 0, key |-> key]

\* server.js:679: parseInt(display_name.replace('User ', ''), 10) || null
ParsedAnonymousNumber(name) ==
    IF name.kind = "User" /\ name.n # 0 THEN name.n ELSE NullNumber

\* server.js:664-669: the value the loop leaves in nextAnonymousNumber
RECURSIVE findNextAvailableAnonymousNumber(_)
findNextAvailableAnonymousNumber(n) ==
    IF n \in usedAnonymousNumbers THEN findNextAvailableAnonymousNumber(n + 1) ELSE n

UsersWithKey(key) == {u \in users : u.twitch_user_id = key}
UsersWithId(id) == {u \in users : u.id = id}
TheUser(S) == CHOOSE u \in S : TRUE

\* a store that ends the round with the answer that completes the expected count
StoreAnswerClosesWhenComplete(c, dbUserId, finalDisplayName) ==
    IF currentQuizSession.currentQuestion = NoQuestion
    THEN /\ Emit(<< Uncaught("submit-answer") >>)
         /\ UNCHANGED << currentQuizSession, answers >>
    ELSE IF Has(CurrentAnswers, dbUserId)
    THEN UNCHANGED << currentQuizSession, answers, log >>
    ELSE LET round == currentQuizSession.currentQuestion.round
             stored == Put(CurrentAnswers, dbUserId,
                           [selectedOption |-> c.selectedOption,
                            responseTime |-> c.responseTime,
                            twitchUserId |-> c.twitchUserId,
                            displayName |-> finalDisplayName,
                            questionId |-> c.questionId,
                            seq |-> currentQuizSession.currentQuestion.receivedAnswerCount + 1])
         IN  /\ answers' = [answers EXCEPT ![round] = stored]
             /\ currentQuizSession' =
                    IF currentQuizSession.currentQuestion.receivedAnswerCount + 1
                           >= currentQuizSession.currentQuestion.expectedAnswerCount
                    THEN [currentQuizSession EXCEPT !.currentQuestion = NoQuestion]
                    ELSE [currentQuizSession EXCEPT !.currentQuestion.receivedAnswerCount = @ + 1]
             /\ UNCHANGED log

\* mutant of StoreAnswer: the live results are computed before the answer is stored
StoreAnswerReportsBefore(c, dbUserId, finalDisplayName) ==
    IF currentQuizSession.currentQuestion = NoQuestion
    THEN /\ Emit(<< Uncaught("submit-answer") >>)
         /\ UNCHANGED << currentQuizSession, answers >>
    ELSE IF Has(CurrentAnswers, dbUserId)
    THEN UNCHANGED << currentQuizSession, answers, log >>
    ELSE LET round == currentQuizSession.currentQuestion.round
             stored == Put(CurrentAnswers, dbUserId,
                           [selectedOption |-> c.selectedOption,
                            responseTime |-> c.responseTime,
                            twitchUserId |-> c.twitchUserId,
                            displayName |-> finalDisplayName,
                            questionId |-> c.questionId,
                            seq |-> currentQuizSession.currentQuestion.receivedAnswerCount + 1])
         IN  /\ answers' = [answers EXCEPT ![round] = stored]
             /\ currentQuizSession' =
                    [currentQuizSession EXCEPT !.currentQuestion.receivedAnswerCount = @ + 1]
             /\ IF controlPanelSocketId # ""
                THEN Emit(<< [type |-> "live-round-update", to |-> controlPanelSocketId,
                              round |-> round,
                              roundResults |-> calculateRoundResults(CurrentAnswers,
                                  currentQuizSession.currentQuestion.correct_option),
                              voteCounts |-> optionVoteCounts(CurrentAnswers)] >>)
                ELSE Emit(<< [type |-> "warn", where |-> "submit-answer",
                              selectedOption |-> c.selectedOption,
                              userId |-> dbUserId] >>)

\* server.js:895-939: the answer is stored unless the identity has one already;
\* reading the answers of a round that is gone throws
StoreAnswer(c, dbUserId, finalDisplayName) ==
    IF currentQuizSession.currentQuestion = NoQuestion
    THEN /\ Emit(<< Uncaught("submit-answer") >>)
         /\ UNCHANGED << currentQuizSession, answers >>
    ELSE IF Has(CurrentAnswers, dbUserId)
    THEN UNCHANGED << currentQuizSession, answers, log >>
    ELSE LET round == currentQuizSession.currentQuestion.round
             stored == Put(CurrentAnswers, dbUserId,
                           [selectedOption |-> c.selectedOption,
                            responseTime |-> c.responseTime,
                            twitchUserId |-> c.twitchUserId,
                            displayName |-> finalDisplayName,
                            questionId |-> c.questionId,
                            seq |-> currentQuizSession.currentQuestion.receivedAnswerCount + 1])
         IN  /\ answers' = [answers EXCEPT ![round] = stored]
             /\ currentQuizSession' =
                    [currentQuizSession EXCEPT !.currentQuestion.receivedAnswerCount = @ + 1]
             /\ IF controlPanelSocketId # ""
                THEN Emit(<< [type |-> "live-round-update", to |-> controlPanelSocketId,
                              round |-> round,
                              roundResults |-> calculateRoundResults(stored,
                                  currentQuizSession.currentQuestion.correct_option),
                              voteCounts |-> optionVoteCounts(stored)] >>)
                ELSE Emit(<< [type |-> "warn", where |-> "submit-answer",
                              selectedOption |-> c.selectedOption,
                              userId |-> dbUserId] >>)

NewSubmitCall(s, data) ==
    [id |-> issued.sub + 1, socket |-> s, questionId |-> data.questionId,
     selectedOption |-> data.selectedOption, responseTime |-> data.responseTime,
     twitchUserId |-> data.twitchUserId,
     session |-> IF Has(socketUserMap, s) THEN socketUserMap[s] ELSE 0,
     dbUserId |-> 0, finalDisplayName |-> AnonymousName(0), merging |-> FALSE,
     anonymousNumber |-> 0, mergeFrom |-> 0, pc |-> "start"]

\* mutant of SubmitAnswer: a response time of 0 passes the validation
SubmitAnswerTakesZeroMargin(s, data) ==
    /\ socketState[s] = "open"
    /\ issued.sub < quota.sub
    /\ issued' = [issued EXCEPT !.sub = @ + 1]
    /\ LET c == NewSubmitCall(s, data)
       IN  IF \/ data.selectedOption = -1
              \/ currentQuizSession.quizId = 0
              \/ currentQuizSession.currentQuestion = NoQuestion
              \/ currentQuizSession.currentQuestion.id # data.questionId
           THEN UNCHANGED submitCalls
           ELSE submitCalls' = submitCalls \cup
                  {IF ~IsAnonymousKey(data.twitchUserId) THEN [c EXCEPT !.pc = "twitch"]
                   ELSE IF c.session # 0
                   THEN [c EXCEPT !.pc = "name",
                                  !.dbUserId = sessionObjects[c.session].dbUserId]
                   ELSE [c EXCEPT !.pc = "anonSelect"]}
    /\ UNCHANGED << sessionVars, storeVars, identityVars, socketVars, log,
                    activateCalls, nextQuestionCalls, deactivateCalls, endRoundCalls,
                    mergeCalls, mergeUserCalls, quota >>

\* server.js:829-852 and 880-882: validation, then the first await of the handler
SubmitAnswer(s, data) ==
    /\ socketState[s] = "open"
    /\ issued.sub < quota.sub
    /\ issued' = [issued EXCEPT !.sub = @ + 1]
    /\ LET c == NewSubmitCall(s, data)
       IN  IF \/ data.responseTime = 0 \/ data.selectedOption = -1
              \/ currentQuizSession.quizId = 0
              \/ currentQuizSession.currentQuestion = NoQuestion
              \/ currentQuizSession.currentQuestion.id # data.questionId
           THEN UNCHANGED submitCalls
           ELSE submitCalls' = submitCalls \cup
                  {IF ~IsAnonymousKey(data.twitchUserId) THEN [c EXCEPT !.pc = "twitch"]
                   ELSE IF c.session # 0
                   THEN [c EXCEPT !.pc = "name",
                                  !.dbUserId = sessionObjects[c.session].dbUserId]
                   ELSE [c EXCEPT !.pc = "anonSelect"]}
    /\ UNCHANGED << sessionVars, storeVars, identityVars, socketVars, log,
                    activateCalls, nextQuestionCalls, deactivateCalls, endRoundCalls,
                    mergeCalls, mergeUserCalls, quota >>

\* server.js:848-852 and 887: getTwitchDisplayName has returned
SubmitTwitchName(c) ==
    /\ c \in submitCalls /\ c.pc = "twitch"
    /\ submitCalls' = (submitCalls \ {c}) \cup
           {IF c.session # 0
            THEN [c EXCEPT !.pc = "name", !.dbUserId = sessionObjects[c.session].dbUserId]
            ELSE [c EXCEPT !.pc = "findOrCreate"]}
    /\ UNCHANGED << sessionVars, storeVars, identityVars, socketVars, log,
                    activateCalls, nextQuestionCalls, deactivateCalls, endRoundCalls,
                    mergeCalls, mergeUserCalls, issued, quota >>

\* server.js:852-858: the display name of the session's user has returned.  A row
\* that is gone makes rows[0] undefined and the handler throws
SubmitName(c) ==
    /\ c \in submitCalls /\ c.pc = "name"
    /\ LET rows == UsersWithId(c.dbUserId)
           session == sessionObjects[c.session]
       IN  IF rows = {}
           THEN /\ submitCalls' = submitCalls \ {c}
                /\ Emit(<< Uncaught("submit-answer") >>)
                /\ UNCHANGED << currentQuizSession, answers >>
           ELSE IF session.isAnonymous /\ ~IsAnonymousKey(c.twitchUserId)
           THEN /\ submitCalls' = (submitCalls \ {c}) \cup
                      {[c EXCEPT !.pc = "findOrCreate", !.merging = TRUE]}
                /\ UNCHANGED << currentQuizSession, answers, log >>
           ELSE /\ submitCalls' = submitCalls \ {c}
                /\ StoreAnswer(c, c.dbUserId, TheUser(rows).display_name)
    /\ UNCHANGED << timers, storeVars, identityVars, socketVars, activateCalls,
                    nextQuestionCalls, deactivateCalls, endRoundCalls, mergeCalls, mergeUserCalls,
                    issued, quota >>

\* a session object of socketUserMap (server.js:885, 890)
NewSession(dbUserId, isAnonymous, anonymousNumber) ==
    [dbUserId |-> dbUserId, isAnonymous |-> isAnonymous, anonymousNumber |-> anonymousNumber]

\* server.js:866-877: the anonymous number is released, the session authenticated
ReleaseAndAuthenticate(c, authId) ==
    LET session == sessionObjects[c.session]
    IN  /\ usedAnonymousNumbers' = usedAnonymousNumbers \ {session.anonymousNumber}
        /\ nextAnonymousNumber' = Min(nextAnonymousNumber, session.anonymousNumber)
        /\ sessionObjects' = [sessionObjects EXCEPT ![c.session] = NewSession(authId, FALSE, NullNumber)]
        /\ socketUserMap' = Put(socketUserMap, c.socket, c.session)

\* server.js:858-864 and 887-890: findOrCreateUser has returned authId
Authenticated(c, authId) ==
    IF ~c.merging
    THEN /\ sessionObjects' = Append(sessionObjects, NewSession(authId, FALSE, NullNumber))
         /\ socketUserMap' = Put(socketUserMap, c.socket, Len(sessionObjects) + 1)
         /\ submitCalls' = submitCalls \ {c}
         /\ StoreAnswer(c, authId, getTwitchDisplayName(c.twitchUserId))
         /\ UNCHANGED << usedAnonymousNumbers, nextAnonymousNumber >>
    ELSE IF sessionObjects[c.session].dbUserId # authId
    THEN /\ submitCalls' = (submitCalls \ {c}) \cup
               {[c EXCEPT !.pc = "mergeUsers", !.dbUserId = authId,
                          !.mergeFrom = sessionObjects[c.session].dbUserId]}
         /\ UNCHANGED << identityVars, currentQuizSession, answers, log >>
    ELSE /\ ReleaseAndAuthenticate(c, authId)
         /\ submitCalls' = submitCalls \ {c}
         /\ StoreAnswer(c, authId, getTwitchDisplayName(c.twitchUserId))

\* server.js:760-770: the SELECT of findOrCreateUser has returned
SubmitFindUser(c) ==
    /\ c \in submitCalls /\ c.pc = "findOrCreate"
    /\ LET rows == UsersWithKey(c.twitchUserId)
       IN  submitCalls' = (submitCalls \ {c}) \cup
               {IF rows # {} THEN [c EXCEPT !.pc = "updateUser", !.dbUserId = TheUser(rows).id]
                ELSE [c EXCEPT !.pc = "insertUser"]}
    /\ UNCHANGED << sessionVars, storeVars, identityVars, socketVars, log,
                    activateCalls, nextQuestionCalls, deactivateCalls, endRoundCalls,
                    mergeCalls, mergeUserCalls, issued, quota >>

\* server.js:764-765: the UPDATE of the display name has returned
SubmitUpdateUser(c) ==
    /\ c \in submitCalls /\ c.pc = "updateUser"
    /\ users' = {IF u.id = c.dbUserId
                 THEN [u EXCEPT !.display_name = getTwitchDisplayName(c.twitchUserId)]
                 ELSE u : u \in users}
    /\ Authenticated(c, c.dbUserId)
    /\ UNCHANGED << timers, instances, responses, nextUserId, socketVars,
                    activateCalls, nextQuestionCalls, deactivateCalls, endRoundCalls,
                    mergeCalls, mergeUserCalls, issued, quota >>

\* server.js:767-771: the INSERT has returned the new user
SubmitInsertUser(c) ==
    /\ c \in submitCalls /\ c.pc = "insertUser"
    /\ UsersWithKey(c.twitchUserId) = {}
    /\ users' = users \cup {[id |-> nextUserId, twitch_user_id |-> c.twitchUserId,
                             display_name |-> getTwitchDisplayName(c.twitchUserId)]}
    /\ nextUserId' = nextUserId + 1
    /\ Authenticated(c, nextUserId)
    /\ UNCHANGED << timers, instances, responses, socketVars,
                    activateCalls, nextQuestionCalls, deactivateCalls, endRoundCalls,
                    mergeCalls, mergeUserCalls, issued, quota >>

\* schema.sql:51: an INSERT of a key that a user row holds by now is refused, and
\* the handler throws
SubmitDuplicateKey(c) ==
    /\ c \in submitCalls /\ c.pc \in {"insertUser", "insertAnonymous"}
    /\ UsersWithKey(c.twitchUserId) # {}
    /\ submitCalls' = submitCalls \ {c}
    /\ Emit(<< Uncaught("submit-answer") >>)
    /\ UNCHANGED << sessionVars, storeVars, identityVars, socketVars,
                    activateCalls, nextQuestionCalls, deactivateCalls, endRoundCalls,
                    mergeCalls, mergeUserCalls, issued, quota >>

\* schema.sql:62: a transaction of endRound that is still open and has inserted
\* a response of the user holds a key-share lock on the row of the user
KeyShared(id) == \E c \in endRoundCalls : \E r \in c.rows : r.user_id = id

\* server.js:702-717: the transaction of mergeUsers; its DELETE waits for the
\* open transactions that hold a lock on the row of the anonymous user
mergeUsers(anonymousDbUserId, authenticatedDbUserId) ==
    /\ ~KeyShared(anonymousDbUserId)
    /\ responses' = {IF r.user_id = anonymousDbUserId
                     THEN [r EXCEPT !.user_id = authenticatedDbUserId] ELSE r :
                     r \in responses}
    /\ users' = {u \in users : u.id # anonymousDbUserId}

\* server.js:862-879 and 895-906: mergeUsers has returned, mergeInMemoryData is
\* called and not awaited, and the handler runs to its end
SubmitMerged(c) ==
    /\ mergeCalls' = mergeCalls \cup
           {[id |-> c.id, anonymousDbUserId |-> sessionObjects[c.session].dbUserId,
             authenticatedDbUserId |-> c.dbUserId]}
    /\ ReleaseAndAuthenticate(c, c.dbUserId)
    /\ submitCalls' = submitCalls \ {c}
    /\ StoreAnswer(c, c.dbUserId, getTwitchDisplayName(c.twitchUserId))

\* server.js:704-710: the transaction of mergeUsers has committed
SubmitMergeUsers(c) ==
    /\ c \in submitCalls /\ c.pc = "mergeUsers"
    /\ mergeUsers(c.mergeFrom, c.dbUserId)
    /\ SubmitMerged(c)
    /\ UNCHANGED << timers, instances, nextUserId, socketVars, activateCalls,
                    nextQuestionCalls, deactivateCalls, endRoundCalls, mergeUserCalls,
                    issued, quota >>

\* server.js:711-716: a statement of the transaction has thrown; mergeUsers rolls
\* back, logs the error and returns normally
SubmitMergeUsersFail(c) ==
    /\ c \in submitCalls /\ c.pc = "mergeUsers"
    /\ CanFail /\ Fault
    /\ SubmitMerged(c)
    /\ UNCHANGED << timers, storeVars, socketVars, activateCalls,
                    nextQuestionCalls, deactivateCalls, endRoundCalls, mergeUserCalls,
                    quota >>

\* a query awaited by the handler has thrown (for mergeUsers: getClient, outside
\* its try); submit-answer has no catch
SubmitFail(c) ==
    /\ c \in submitCalls /\ c.pc # "twitch"
    /\ CanFail /\ Fault
    /\ submitCalls' = submitCalls \ {c}
    /\ Emit(<< Uncaught("submit-answer") >>)
    /\ UNCHANGED << sessionVars, storeVars, identityVars, socketVars,
                    activateCalls, nextQuestionCalls, deactivateCalls, endRoundCalls,
                    mergeCalls, mergeUserCalls, quota >>

\* server.js:673-689 and 882-885: the SELECT of createAnonymousUser has returned
SubmitFindAnonymous(c) ==
    /\ c \in submitCalls /\ c.pc = "anonSelect"
    /\ LET existing == UsersWithKey(c.twitchUserId)
           number == findNextAvailableAnonymousNumber(nextAnonymousNumber)
       IN  IF existing # {}
           THEN LET user == TheUser(existing)
                IN  /\ sessionObjects' = Append(sessionObjects,
                           NewSession(user.id, TRUE, ParsedAnonymousNumber(user.display_name)))
                    /\ socketUserMap' = Put(socketUserMap, c.socket, Len(sessionObjects) + 1)
                    /\ submitCalls' = submitCalls \ {c}
                    /\ StoreAnswer(c, user.id, user.display_name)
                    /\ UNCHANGED nextAnonymousNumber
           ELSE /\ nextAnonymousNumber' = number
                /\ submitCalls' = (submitCalls \ {c}) \cup
                       {[c EXCEPT !.pc = "insertAnonymous", !.anonymousNumber = number]}
                /\ UNCHANGED << sessionObjects, socketUserMap, currentQuizSession,
                                answers, log >>
    /\ UNCHANGED << timers, storeVars, usedAnonymousNumbers, socketVars,
                    activateCalls, nextQuestionCalls, deactivateCalls, endRoundCalls,
                    mergeCalls, mergeUserCalls, issued, quota >>

\* server.js:686-699 and 882-885: the INSERT of createAnonymousUser has returned
SubmitInsertAnonymous(c) ==
    /\ c \in submitCalls /\ c.pc = "insertAnonymous"
    /\ UsersWithKey(c.twitchUserId) = {}
    /\ users' = users \cup {[id |-> nextUserId, twitch_user_id |-> c.twitchUserId,
                             display_name |-> AnonymousName(c.anonymousNumber)]}
    /\ nextUserId' = nextUserId + 1
    /\ usedAnonymousNumbers' = usedAnonymousNumbers \cup {c.anonymousNumber}
    /\ sessionObjects' = Append(sessionObjects, NewSession(nextUserId, TRUE, c.anonymousNumber))
    /\ socketUserMap' = Put(socketUserMap, c.socket, Len(sessionObjects) + 1)
    /\ submitCalls' = submitCalls \ {c}
    /\ StoreAnswer(c, nextUserId, AnonymousName(c.anonymousNumber))
    /\ UNCHANGED << timers, instances, responses, nextAnonymousNumber, socketVars,
                    activateCalls, nextQuestionCalls, deactivateCalls, endRoundCalls,
                    mergeCalls, mergeUserCalls, issued, quota >>

\* mutant of MergeScores: the authenticated entry is overwritten, not added to
MergeScoresOverwrites(scores, anonymousDbUserId, authenticatedDbUserId, newDisplayName) ==
    IF ~Has(scores, anonymousDbUserId) THEN scores
    ELSE Remove(Put(scores, authenticatedDbUserId, scores[anonymousDbUserId]),
                anonymousDbUserId)

\* server.js:730-746
MergeScores(scores, anonymousDbUserId, authenticatedDbUserId, newDisplayName) ==
    IF ~Has(scores, anonymousDbUserId) THEN scores
    ELSE LET anonymousUserData == scores[anonymousDbUserId]
             anonymousScore == anonymousUserData.score
             created == IF Has(scores, authenticatedDbUserId)
                        THEN scores[authenticatedDbUserId]
                        ELSE [anonymousUserData EXCEPT
                                !.score = 0,
                                !.displayName = IF newDisplayName.kind # "null"
                                                THEN newDisplayName ELSE @]
             summed == [created EXCEPT
                          !.score = @ + anonymousScore,
                          !.displayName = IF newDisplayName.kind # "null"
                                          THEN newDisplayName ELSE @]
         IN  Remove(Put(scores, authenticatedDbUserId, summed), anonymousDbUserId)

\* server.js:748-755
MergeAnswers(as, anonymousDbUserId, authenticatedDbUserId, newDisplayName) ==
    IF ~Has(as, anonymousDbUserId) THEN as
    ELSE LET answerData == as[anonymousDbUserId]
         IN  Remove(Put(as, authenticatedDbUserId,
                        [answerData EXCEPT
                           !.displayName = IF newDisplayName.kind # "null"
                                           THEN newDisplayName ELSE @]),
                    anonymousDbUserId)

NullName == [kind |-> "null", n |-> 0, key |-> << >>]

\* server.js:719-756: the SELECT of mergeInMemoryData has returned (or thrown into
\* its catch); the score and the in-flight answer move to the authenticated id
mergeInMemoryData(m) ==
    /\ m \in mergeCalls
    /\ mergeCalls' = mergeCalls \ {m}
    /\ LET rows == UsersWithId(m.authenticatedDbUserId)
           newDisplayName == IF rows # {} THEN TheUser(rows).display_name ELSE NullName
           round == currentQuizSession.currentQuestion.round
       IN  /\ currentQuizSession' =
                  [currentQuizSession EXCEPT
                     !.userScores = MergeScores(@, m.anonymousDbUserId,
                                                m.authenticatedDbUserId, newDisplayName)]
           /\ answers' =
                  IF currentQuizSession.currentQuestion # NoQuestion
                  THEN [answers EXCEPT ![round] =
                           MergeAnswers(@, m.anonymousDbUserId,
                                        m.authenticatedDbUserId, newDisplayName)]
                  ELSE answers
    /\ UNCHANGED << timers, storeVars, identityVars, socketVars, log, activateCalls,
                    nextQuestionCalls, deactivateCalls, endRoundCalls, submitCalls,
                    mergeUserCalls, issued, quota >>

\* --------------------------------------------------------------- merge-user
\* server.js:796-799: the event of a viewer whose opaque id and real id are both
\* known; the handler is suspended at its SELECT of the anonymous user
MergeUserRequest(s, opaqueId, realUserId) ==
    /\ socketState[s] = "open"
    /\ issued.sub < quota.sub
    /\ issued' = [issued EXCEPT !.sub = @ + 1]
    /\ mergeUserCalls' = mergeUserCalls \cup
           {[id |-> issued.sub + 1, opaqueId |-> opaqueId, realUserId |-> realUserId,
             anonDbUserId |-> 0, realDbUserId |-> 0, anonymousNumber |-> 0,
             pc |-> "selectAnon"]}
    /\ UNCHANGED << sessionVars, storeVars, identityVars, socketVars, log,
                    activateCalls, nextQuestionCalls, deactivateCalls, endRoundCalls,
                    submitCalls, mergeCalls, quota >>

\* server.js:799-803: the SELECT of the anonymous user has returned
MergeUserFindAnonymous(c) ==
    /\ c \in mergeUserCalls /\ c.pc = "selectAnon"
    /\ LET rows == UsersWithKey(c.opaqueId)
       IN  mergeUserCalls' = (mergeUserCalls \ {c}) \cup
               {IF rows # {}
                THEN [c EXCEPT !.pc = "selectReal", !.anonDbUserId = TheUser(rows).id]
                ELSE [c EXCEPT !.pc = "createSelect"]}
    /\ UNCHANGED << sessionVars, storeVars, identityVars, socketVars, log,
                    activateCalls, nextQuestionCalls, deactivateCalls, endRoundCalls,
                    submitCalls, mergeCalls, issued, quota >>

\* server.js:673-689 and 801: the SELECT of createAnonymousUser has returned
MergeUserCreateFind(c) ==
    /\ c \in mergeUserCalls /\ c.pc = "createSelect"
    /\ LET existing == UsersWithKey(c.opaqueId)
           number == findNextAvailableAnonymousNumber(nextAnonymousNumber)
       IN  IF existing # {}
           THEN /\ mergeUserCalls' = (mergeUserCalls \ {c}) \cup
                       {[c EXCEPT !.pc = "selectReal",
                                  !.anonDbUserId = TheUser(existing).id]}
                /\ UNCHANGED nextAnonymousNumber
           ELSE /\ nextAnonymousNumber' = number
                /\ mergeUserCalls' = (mergeUserCalls \ {c}) \cup
                       {[c EXCEPT !.pc = "createInsert", !.anonymousNumber = number]}
    /\ UNCHANGED << sessionVars, storeVars, socketUserMap, sessionObjects,
                    usedAnonymousNumbers, socketVars, log, activateCalls,
                    nextQuestionCalls, deactivateCalls, endRoundCalls, submitCalls,
                    mergeCalls, issued, quota >>

\* server.js:686-699 and 801-802: the INSERT of createAnonymousUser has returned;
\* the number is in use from here on, and no session object holds it
MergeUserCreateInsert(c) ==
    /\ c \in mergeUserCalls /\ c.pc = "createInsert"
    /\ UsersWithKey(c.opaqueId) = {}
    /\ users' = users \cup {[id |-> nextUserId, twitch_user_id |-> c.opaqueId,
                             display_name |-> AnonymousName(c.anonymousNumber)]}
    /\ nextUserId' = nextUserId + 1
    /\ usedAnonymousNumbers' = usedAnonymousNumbers \cup {c.anonymousNumber}
    /\ mergeUserCalls' = (mergeUserCalls \ {c}) \cup
           {[c EXCEPT !.pc = "selectReal", !.anonDbUserId = nextUserId]}
    /\ UNCHANGED << sessionVars, instances, responses, socketUserMap, sessionObjects,
                    nextAnonymousNumber, socketVars, log, activateCalls,
                    nextQuestionCalls, deactivateCalls, endRoundCalls, submitCalls,
                    mergeCalls, issued, quota >>

\* schema.sql:51 and server.js:824-826: an INSERT of a key that a user row holds
\* by now is refused; the catch of the handler logs the error
MergeUserDuplicateKey(c) ==
    /\ c \in mergeUserCalls
    /\ \/ c.pc = "createInsert" /\ UsersWithKey(c.opaqueId) # {}
       \/ c.pc = "insertReal" /\ UsersWithKey(c.realUserId) # {}
    /\ mergeUserCalls' = mergeUserCalls \ {c}
    /\ UNCHANGED << sessionVars, storeVars, identityVars, socketVars, log,
                    activateCalls, nextQuestionCalls, deactivateCalls, endRoundCalls,
                    submitCalls, mergeCalls, issued, quota >>

\* server.js:815-820: both ids are known; equal ids end the handler, else it is
\* suspended in mergeUsers
MergeUserCompare(c, realDbUserId) ==
    IF c.anonDbUserId = realDbUserId THEN {}
    ELSE {[c EXCEPT !.pc = "mergeUsers", !.realDbUserId = realDbUserId]}

\* server.js:817-819: the handler logs that the ids are equal
MergeUserSame(c, realDbUserId) ==
    IF c.anonDbUserId = realDbUserId
    THEN Emit(<< [type |-> "info", where |-> "merge-user", anonDbUserId |-> c.anonDbUserId,
                  realDbUserId |-> realDbUserId] >>)
    ELSE UNCHANGED log

\* server.js:805-806: the SELECT of the authenticated user has returned
MergeUserFindReal(c) ==
    /\ c \in mergeUserCalls /\ c.pc = "selectReal"
    /\ LET rows == UsersWithKey(c.realUserId)
       IN  IF rows # {}
           THEN /\ mergeUserCalls' = (mergeUserCalls \ {c}) \cup
                       MergeUserCompare(c, TheUser(rows).id)
                /\ MergeUserSame(c, TheUser(rows).id)
           ELSE /\ mergeUserCalls' = (mergeUserCalls \ {c}) \cup
                       {[c EXCEPT !.pc = "realName"]}
                /\ UNCHANGED log
    /\ UNCHANGED << sessionVars, storeVars, identityVars, socketVars,
                    activateCalls, nextQuestionCalls, deactivateCalls, endRoundCalls,
                    submitCalls, mergeCalls, issued, quota >>

\* server.js:807: getTwitchDisplayName has returned
MergeUserRealName(c) ==
    /\ c \in mergeUserCalls /\ c.pc = "realName"
    /\ mergeUserCalls' = (mergeUserCalls \ {c}) \cup {[c EXCEPT !.pc = "insertReal"]}
    /\ UNCHANGED << sessionVars, storeVars, identityVars, socketVars, log,
                    activateCalls, nextQuestionCalls, deactivateCalls, endRoundCalls,
                    submitCalls, mergeCalls, issued, quota >>

\* server.js:808-813: the INSERT of the authenticated user has returned
MergeUserInsertReal(c) ==
    /\ c \in mergeUserCalls /\ c.pc = "insertReal"
    /\ UsersWithKey(c.realUserId) = {}
    /\ users' = users \cup {[id |-> nextUserId, twitch_user_id |-> c.realUserId,
                             display_name |-> getTwitchDisplayName(c.realUserId)]}
    /\ nextUserId' = nextUserId + 1
    /\ mergeUserCalls' = (mergeUserCalls \ {c}) \cup MergeUserCompare(c, nextUserId)
    /\ MergeUserSame(c, nextUserId)
    /\ UNCHANGED << sessionVars, instances, responses, identityVars, socketVars,
                    activateCalls, nextQuestionCalls, deactivateCalls, endRoundCalls,
                    submitCalls, mergeCalls, issued, quota >>

\* server.js:820-822: the transaction of mergeUsers has committed and
\* mergeInMemoryData is called and not awaited; the handler ends.  It leaves
\* usedAnonymousNumbers, nextAnonymousNumber and socketUserMap as they are
MergeUserMerged(c) ==
    /\ c \in mergeUserCalls /\ c.pc = "mergeUsers"
    /\ mergeUsers(c.anonDbUserId, c.realDbUserId)
    /\ mergeCalls' = mergeCalls \cup
           {[id |-> c.id, anonymousDbUserId |-> c.anonDbUserId,
             authenticatedDbUserId |-> c.realDbUserId]}
    /\ mergeUserCalls' = mergeUserCalls \ {c}
    /\ UNCHANGED << sessionVars, instances, nextUserId, identityVars, socketVars, log,
                    activateCalls, nextQuestionCalls, deactivateCalls, endRoundCalls,
                    submitCalls, issued, quota >>

\* ------------------------------------------------------------ specifications
\* the answers a viewer may send for a question
SubmitData(questions, options, margins, keys) ==
    [questionId : questions, selectedOption : options, responseTime : margins,
     twitchUserId : keys]

Control ==
    \/ \E q \in quota.quizzes : ActivateRequest(q)
    \/ \E c \in activateCalls : ActivateInstance(c)
    \/ \E c \in activateCalls : ActivateCommit(c)
    \/ NextQuestionRequest
    \/ \E c \in nextQuestionCalls : NextQuestionOpen(c)
    \/ \E c \in nextQuestionCalls : NextQuestionFinish(c)
    \/ DeactivateRequest
    \/ \E c \in deactivateCalls : DeactivateFinish(c)

Round ==
    \/ \E t \in timers : TimerFire(t)
    \/ \E c \in endRoundCalls : EndRoundBegin(c)
    \/ \E c \in endRoundCalls : EndRoundInsert(c)
    \/ \E c \in endRoundCalls : EndRoundCommit(c)
    \/ \E c \in endRoundCalls : EndRoundCatch(c)
    \/ \E c \in endRoundCalls : EndRoundRollback(c)

Transport ==
    \/ \E s \in quota.sockets : Connect(s)
    \/ \E s \in quota.sockets : \E d \in quota.data : SubmitAnswer(s, d)

Authenticate ==
    \/ \E c \in submitCalls : SubmitTwitchName(c)
    \/ \E c \in submitCalls : SubmitName(c)
    \/ \E c \in submitCalls : SubmitFindUser(c)
    \/ \E c \in submitCalls : SubmitUpdateUser(c)
    \/ \E c \in submitCalls : SubmitInsertUser(c)

Anonymous ==
    \/ \E c \in submitCalls : SubmitFindAnonymous(c)
    \/ \E c \in submitCalls : SubmitInsertAnonymous(c)
    \/ \E c \in submitCalls : SubmitMergeUsers(c)
    \/ \E c \in submitCalls : SubmitMergeUsersFail(c)
    \/ \E m \in mergeCalls : mergeInMemoryData(m)

\* the round lifecycle: control commands, the deadline timer, endRound, and the
\* answers of authenticated viewers
Next == Control \/ Round \/ Transport \/ Authenticate

InitRound ==
    /\ Init
    /\ quota = [cmd |-> MaxCommands, sub |-> MaxSubmits, faults |-> 0,
                quizzes |-> {2}, sockets |-> {"s1"},
                data |-> SubmitData({21}, {0}, {1400}, { <<"7", "1">> })]

Spec == InitRound /\ [][Next]_vars

\* the round lifecycle with submissions that the validation of submit-answer
\* screens: question 11 is of another quiz, option -1 is no answer, margin 0
InitScreen ==
    /\ Init
    /\ quota = [cmd |-> MaxCommands, sub |-> MaxSubmits, faults |-> 0,
                quizzes |-> {2}, sockets |-> {"s1"},
                data |-> SubmitData({21, 11}, {0, -1}, {0, 1400}, { <<"7", "1">> })]

SpecScreen == InitScreen /\ [][Next]_vars

\* the round lifecycle with the response times that pass the validation of
\* submit-answer: 700 for the correct option 0, and -700 for the correct option
\* and for the wrong option 1 (in half units)
InitMargin ==
    /\ Init
    /\ quota = [cmd |-> MaxMarginCommands, sub |-> MaxMarginSubmits, faults |-> 0,
                quizzes |-> {2}, sockets |-> {"s1"},
                data |-> SubmitData({21}, {0}, {1400}, { <<"7", "1">> })
                           \cup SubmitData({21}, {0, 1}, {0 - 1400}, { <<"7", "1">> })]

SpecMargin == InitMargin /\ [][Next]_vars

\* the round lifecycle with activate commands for quiz 2 and for the id 9 that
\* no quiz has
Refused == \E c \in activateCalls : ActivateNotFound(c)

NextActivate == Next \/ Refused

InitActivate ==
    /\ Init
    /\ quota = [cmd |-> MaxActivateCommands, sub |-> MaxSubmits, faults |-> 0,
                quizzes |-> {2, 9}, sockets |-> {"s1"},
                data |-> SubmitData({21}, {0}, {1400}, { <<"7", "1">> })]

SpecActivate == InitActivate /\ [][NextActivate]_vars

\* a quiz run with the control panel: the socket of the viewers and the socket of
\* the control panel connect, the latter registers, and viewers answer with option
\* 0 or with option 7, which no bucket of the vote counts stands for; no storage
\* operation fails
Closing ==
    \/ \E t \in timers : TimerFire(t)
    \/ \E c \in endRoundCalls : EndRoundBegin(c)
    \/ \E c \in endRoundCalls : EndRoundInsert(c)
    \/ \E c \in endRoundCalls : EndRoundCommit(c)

\* the socket of the control panel page
PanelSocket == "s2"

Panel == Connect(PanelSocket) \/ RegisterControlPanel(PanelSocket)

NextPanel == Control \/ Closing \/ Transport \/ Panel \/ Authenticate

ViewerKeys == { <<"7", "1">>, <<"7", "2">> }

InitPanel ==
    /\ Init
    /\ quota = [cmd |-> MaxPanelCommands, sub |-> MaxSubmits, faults |-> 0,
                quizzes |-> {2}, sockets |-> {"s1"},
                data |-> SubmitData({21}, {0, 7}, {1400}, ViewerKeys)]

SpecPanel == InitPanel /\ [][NextPanel]_vars

\* the round lifecycle under fair scheduling: a pending timer fires and a storage
\* operation that a handler awaits returns; commands and answers come when they come
Resumes ==
    \/ \E c \in activateCalls : ActivateInstance(c)
    \/ \E c \in activateCalls : ActivateCommit(c)
    \/ \E c \in nextQuestionCalls : NextQuestionOpen(c)
    \/ \E c \in nextQuestionCalls : NextQuestionFinish(c)
    \/ \E c \in deactivateCalls : DeactivateFinish(c)

SpecFair ==
    /\ InitRound /\ [][Next]_vars
    /\ WF_vars(Round) /\ WF_vars(Resumes) /\ WF_vars(Authenticate)

\* closes that fail: the round lifecycle with every storage failure of endRound
CloseFaults ==
    \/ \E c \in endRoundCalls : EndRoundNoClient(c)
    \/ \E c \in endRoundCalls : EndRoundRollbackFail(c)

NextClose == Next \/ CloseFaults

InitClose ==
    /\ Init
    /\ quota = [cmd |-> MaxCloseCommands, sub |-> MaxSubmits, faults |-> MaxCloseFaults,
                quizzes |-> {2}, sockets |-> {"s1"},
                data |-> SubmitData({21}, {0}, {1400}, { <<"7", "1">> })]

SpecClose == InitClose /\ [][NextClose]_vars

\* the identity resolver: two quizzes, anonymous and authenticated keys, merges, and
\* storage failures
NextIdentity == Control \/ Round \/ Transport \/ Authenticate \/ Anonymous

InitIdentity ==
    /\ Init
    /\ quota = [cmd |-> MaxIdentityCommands, sub |-> MaxIdentitySubmits,
                faults |-> MaxFaults, quizzes |-> {1, 2}, sockets |-> {"s1"},
                data |-> SubmitData({11, 12}, {2}, {300}, Keys)]

SpecIdentity == InitIdentity /\ [][NextIdentity]_vars

\* the in-memory merge on its own: a submit-answer of viewer 7 on the socket of
\* anonymous user 1 has returned from mergeUsers and called mergeInMemoryData
\* (server.js:862-863), which is suspended at its SELECT.  The scores that earlier
\* rounds left, and the answers of the open round, are drawn from bounded sets
Scores == {k * 150 : k \in (0 - MaxScoreSteps)..MaxScoreSteps}
AnonymousUser == [id |-> 1, twitch_user_id |-> <<"U", "a">>, display_name |-> AnonymousName(1)]
TwitchUser == [id |-> 2, twitch_user_id |-> <<"7", "1">>,
               display_name |-> getTwitchDisplayName(<<"7", "1">>)]
ScoreEntry(user, score) ==
    [score |-> score, twitchUserId |-> user.twitch_user_id, displayName |-> user.display_name]
AnswerOf(user) ==
    [selectedOption |-> 2, responseTime |-> 300, twitchUserId |-> user.twitch_user_id,
     displayName |-> user.display_name, questionId |-> 12, seq |-> user.id]

InitMerge ==
    /\ \E s \in Scores, t \in Scores, present \in SUBSET {1, 2},
          answered \in SUBSET {1, 2}, open \in BOOLEAN, from \in {1, 2} :
          /\ from = 1 \/ present # {}
          /\ open \/ answered = {}
          /\ currentQuizSession =
                 [quizId |-> 1, quizInstanceId |-> 1, questionIndex |-> 2,
                  userScores |-> [id \in present |->
                                     IF id = 1 THEN ScoreEntry(AnonymousUser, s)
                                     ELSE ScoreEntry(TwitchUser, t)],
                  currentQuestion |->
                      IF open
                      THEN [id |-> 12, round |-> 2, correct_option |-> 3, time_limit |-> 20,
                            receivedAnswerCount |-> Cardinality(answered),
                            expectedAnswerCount |-> 1]
                      ELSE NoQuestion,
                  submissionWindowTimeout |->
                      IF open THEN NewTimer(2, QuizQuestions[1][2]) ELSE NoTimer]
          /\ answers = << <<>>, [id \in answered |->
                                    IF id = 1 THEN AnswerOf(AnonymousUser)
                                    ELSE AnswerOf(TwitchUser)] >>
          /\ timers = IF open THEN {NewTimer(2, QuizQuestions[1][2])} ELSE {}
          /\ mergeUserCalls = {}
          /\ mergeCalls = {[id |-> 1, anonymousDbUserId |-> from,
                            authenticatedDbUserId |-> 2]}
    /\ instances = << [quiz_id |-> 1, ended |-> FALSE] >>
    /\ responses = {}
    /\ users = {TwitchUser}
    /\ nextUserId = 3
    /\ sessionObjects = << NewSession(2, FALSE, NullNumber) >>
    /\ socketUserMap = Put(<<>>, "s1", 1)
    /\ usedAnonymousNumbers = {}
    /\ nextAnonymousNumber = 1
    /\ controlPanelSocketId = ""
    /\ activeParticipantSocketIds = {"s1"}
    /\ socketState = [s \in Sockets |-> IF s = "s1" THEN "open" ELSE "new"]
    /\ log = EmptyBag
    /\ activateCalls = {} /\ nextQuestionCalls = {} /\ deactivateCalls = {}
    /\ endRoundCalls = {} /\ submitCalls = {}
    /\ issued = [cmd |-> 0, sub |-> 0, faults |-> 0, fired |-> 0, ignored |-> 0]
    /\ quota = [cmd |-> 0, sub |-> 0, faults |-> 0, quizzes |-> {}, sockets |-> {},
                data |-> {}]

NextMerge == \E m \in mergeCalls : mergeInMemoryData(m)

SpecMerge == InitMerge /\ [][NextMerge]_vars

\* scoring on its own: round 1 is open on question 11 of quiz 1 (correct option 2)
\* and its deadline is about to fire; the answers object that endRound hands to
\* calculateRoundResults is drawn from bounded sets.  Margins are in half units:
\* 300, 300.5, 400, 700 and 900.  The no-answer option -1 is an input of the
\* function that the validation of submit-answer (server.js:833) keeps out of it.
\* Answers were submitted in ascending or in descending order of user id
Margins == {600, 601, 800, 1400, 1800}
Choices == {-1, 0, 2}
Answerers == 1..MaxAnswers
ViewerKey(id) == << "7", id >>

InitAnswers(q) ==
    /\ \E present \in SUBSET Answerers, reversed \in BOOLEAN :
       \E option \in [present -> Choices], margin \in [present -> Margins] :
          /\ answers = << [id \in present |->
                             [selectedOption |-> option[id], responseTime |-> margin[id],
                              twitchUserId |-> ViewerKey(id),
                              displayName |-> getTwitchDisplayName(ViewerKey(id)),
                              questionId |-> 11,
                              seq |-> IF reversed
                                      THEN Cardinality({j \in present : j >= id})
                                      ELSE Cardinality({j \in present : j <= id})]] >>
          /\ currentQuizSession =
                 [quizId |-> 1, quizInstanceId |-> 1, questionIndex |-> 1,
                  userScores |-> <<>>,
                  currentQuestion |->
                      [id |-> 11, round |-> 1, correct_option |-> 2, time_limit |-> 10,
                       receivedAnswerCount |-> Cardinality(present),
                       expectedAnswerCount |-> MaxAnswers],
                  submissionWindowTimeout |-> NewTimer(1, QuizQuestions[1][1])]
    /\ timers = {NewTimer(1, QuizQuestions[1][1])}
    /\ instances = << [quiz_id |-> 1, ended |-> FALSE] >>
    /\ responses = {}
    /\ users = {[id |-> id, twitch_user_id |-> ViewerKey(id),
                 display_name |-> getTwitchDisplayName(ViewerKey(id))] : id \in Answerers}
    /\ nextUserId = MaxAnswers + 1
    /\ sessionObjects = << >>
    /\ socketUserMap = << >>
    /\ usedAnonymousNumbers = {}
    /\ nextAnonymousNumber = 1
    /\ controlPanelSocketId = ""
    /\ activeParticipantSocketIds = {}
    /\ socketState = [s \in Sockets |-> "closed"]
    /\ log = EmptyBag
    /\ activateCalls = {} /\ nextQuestionCalls = {} /\ deactivateCalls = {}
    /\ endRoundCalls = {} /\ submitCalls = {} /\ mergeCalls = {}
    /\ mergeUserCalls = {}
    /\ issued = [cmd |-> 0, sub |-> 0, faults |-> 0, fired |-> 0, ignored |-> 0]
    /\ quota = q

InitScoring ==
    InitAnswers([cmd |-> 0, sub |-> 0, faults |-> 0, quizzes |-> {}, sockets |-> {},
                 data |-> {}])

\* the close of that round with its transaction, in which one storage operation
\* may fail
InitBatch ==
    InitAnswers([cmd |-> 0, sub |-> 0, faults |-> MaxBatchFaults, quizzes |-> {},
                 sockets |-> {}, data |-> {}])

SpecBatch == InitBatch /\ [][Round]_vars

NextScoring == \E t \in timers : TimerFire(t)

SpecScoring == InitScoring /\ [][NextScoring]_vars

\* the viewers of one round: two connected sockets answer question 11 of quiz 1
\* while its round is open, under anonymous keys and under the Twitch key, send
\* merge-user and disconnect; the deadline is still ahead
OpaqueKeys == { <<"U", "a">>, <<"U", "b">> }
RealKeys == { <<"7", "1">> }

Viewers ==
    \/ \E s \in quota.sockets : \E d \in quota.data : SubmitAnswer(s, d)
    \/ \E s \in quota.sockets : \E o \in OpaqueKeys : \E r \in RealKeys :
           MergeUserRequest(s, o, r)
    \/ \E s \in quota.sockets : Disconnect(s)

Allocate ==
    \/ \E c \in submitCalls : SubmitFindAnonymous(c)
    \/ \E c \in submitCalls : SubmitInsertAnonymous(c)
    \/ \E c \in submitCalls : SubmitDuplicateKey(c)
    \/ \E c \in submitCalls : SubmitMergeUsers(c)
    \/ \E m \in mergeCalls : mergeInMemoryData(m)

MergeUser ==
    \/ \E c \in mergeUserCalls : MergeUserFindAnonymous(c)
    \/ \E c \in mergeUserCalls : MergeUserCreateFind(c)
    \/ \E c \in mergeUserCalls : MergeUserCreateInsert(c)
    \/ \E c \in mergeUserCalls : MergeUserDuplicateKey(c)
    \/ \E c \in mergeUserCalls : MergeUserFindReal(c)
    \/ \E c \in mergeUserCalls : MergeUserRealName(c)
    \/ \E c \in mergeUserCalls : MergeUserInsertReal(c)
    \/ \E c \in mergeUserCalls : MergeUserMerged(c)

NextNumbers == Viewers \/ Authenticate \/ Allocate \/ MergeUser

InitViewers(q) ==
    /\ answers = << << >> >>
    /\ currentQuizSession =
           [quizId |-> 1, quizInstanceId |-> 1, questionIndex |-> 1,
            userScores |-> <<>>,
            currentQuestion |->
                [id |-> 11, round |-> 1, correct_option |-> 2, time_limit |-> 10,
                 receivedAnswerCount |-> 0,
                 expectedAnswerCount |-> Cardinality(Sockets)],
            submissionWindowTimeout |-> NewTimer(1, QuizQuestions[1][1])]
    /\ timers = {NewTimer(1, QuizQuestions[1][1])}
    /\ instances = << [quiz_id |-> 1, ended |-> FALSE] >>
    /\ responses = {}
    /\ users = {}
    /\ nextUserId = 1
    /\ sessionObjects = << >>
    /\ socketUserMap = << >>
    /\ usedAnonymousNumbers = {}
    /\ nextAnonymousNumber = 1
    /\ controlPanelSocketId = ""
    /\ activeParticipantSocketIds = Sockets
    /\ socketState = [s \in Sockets |-> "open"]
    /\ log = EmptyBag
    /\ activateCalls = {} /\ nextQuestionCalls = {} /\ deactivateCalls = {}
    /\ endRoundCalls = {} /\ submitCalls = {} /\ mergeCalls = {}
    /\ mergeUserCalls = {}
    /\ issued = [cmd |-> 2, sub |-> 0, faults |-> 0, fired |-> 0, ignored |-> 0]
    /\ quota = q

InitNumbers ==
    InitViewers([cmd |-> 2, sub |-> MaxViewerEvents, faults |-> 0, quizzes |-> {1},
                 sockets |-> Sockets,
                 data |-> SubmitData({11}, {2}, {300}, OpaqueKeys \cup RealKeys)])

SpecNumbers == InitNumbers /\ [][NextNumbers]_vars

\* one viewer of the round: its socket answers under its anonymous key and under
\* its Twitch key and sends merge-user with any two of these keys, the same key
\* twice included
ViewerIds == { <<"U", "a">>, <<"7", "1">> }

SameViewer ==
    \/ \E s \in quota.sockets : \E d \in quota.data : SubmitAnswer(s, d)
    \/ \E s \in quota.sockets : \E o \in ViewerIds : \E r \in ViewerIds :
           MergeUserRequest(s, o, r)

NextSame == SameViewer \/ Authenticate \/ Allocate \/ MergeUser

InitSame ==
    InitViewers([cmd |-> 2, sub |-> MaxSameEvents, faults |-> 0, quizzes |-> {1},
                 sockets |-> {"s1"},
                 data |-> SubmitData({11}, {2}, {300}, ViewerIds)])

SpecSame == InitSame /\ [][NextSame]_vars

\* ------------------------------------------------------------------ claims
Rounds == 1..Len(answers)
RoundEndsOf(r) == SumCopies(log, {e \in Events("round-end") : e.round = r})
BatchesOf(r) == {row.batch : row \in {x \in responses : x.round = r}}
RoundOpen == currentQuizSession.currentQuestion # NoQuestion

\* C1: every opened round gets at most one persisted batch of responses and at
\* most one round-end broadcast, however many times endRound is invoked for it
C1_CloseOnce ==
    \A r \in Rounds : RoundEndsOf(r) <= 1 /\ Cardinality(BatchesOf(r)) <= 1

\* an endRound call whose round is no longer the open round of the session
Stale(c) == c.round # currentQuizSession.currentQuestion.round

\* C2: an endRound that resumes after its round was replaced leaves the session
\* (scores, open round, timer handle), the pending timers and the broadcasts alone
C2_ResumedCloseLeavesNewState ==
    [][\A c \in endRoundCalls :
          (c \notin endRoundCalls' /\ Stale(c)) =>
              /\ currentQuizSession' = currentQuizSession
              /\ timers' = timers
              /\ CountIn(log', "round-end") = Count("round-end")]_vars

\* C4: every answer in the open round's mapping was submitted with the question id
\* of that round
C4_AnswersBelongToRound ==
    RoundOpen =>
        \A u \in DOMAIN CurrentAnswers :
            CurrentAnswers[u].questionId = currentQuizSession.currentQuestion.id

\* C6: endRound runs only against the round its timer was armed for
C6_TimerClosesItsRound ==
    \A c \in endRoundCalls : c.armedFor = c.round

FinalResultsOf(i) ==
    SumCopies(log, {e \in Events("show-final-results") : e.instance = i})

\* C7: a quiz instance is finalized at most once, whatever the number of advance
\* calls past the last question
C7_FinalizeOnce ==
    \A i \in 1..Len(instances) : FinalResultsOf(i) <= 1

\* C8: once show-final-results was emitted for an instance, its end time is stored
\* and the session is no longer Active with it
C8_FinalizeEndsInstance ==
    \A i \in 1..Len(instances) :
        FinalResultsOf(i) > 0 =>
            instances[i].ended /\ currentQuizSession.quizInstanceId # i

\* the step is the firing of a timer (server.js:462-465)
IsTimerFire ==
    /\ timers' # timers /\ timers' \subseteq timers
    /\ issued'.fired + issued'.ignored = issued.fired + issued.ignored + 1

\* the step completes a deactivate (server.js:506-511)
IsDeactivateFinish == CountIn(log', "quiz-end") > Count("quiz-end")

\* C5: a deactivate that completes while a round is open leaves no deadline of
\* that round pending, and endRound called by a timer while no quiz is active
\* changes nothing: session, answers, stored rows, broadcasts, suspended calls
C5_DeactivateCancelsDeadline ==
    [][/\ (IsDeactivateFinish /\ RoundOpen) =>
              /\ \A t \in timers' : t.round # currentQuizSession.currentQuestion.round
              /\ currentQuizSession' = EmptySession
       /\ (IsTimerFire /\ currentQuizSession.quizId = 0) =>
              /\ currentQuizSession' = currentQuizSession
              /\ answers' = answers /\ responses' = responses /\ log' = log
              /\ endRoundCalls' = endRoundCalls]_vars

\* C5 witness: a deactivate completed while a round was open and not closed, the
\* session is Idle and no deadline is pending
C5_Witness ==
    /\ currentQuizSession = EmptySession
    /\ \E e \in Events("quiz-end") :
           /\ e.round # 0
           /\ RoundEndsOf(e.round) = 0
    /\ timers = {}

\* the step stays inside one open round
SameOpenRound ==
    /\ RoundOpen /\ RoundOpen'
    /\ currentQuizSession'.currentQuestion.round = currentQuizSession.currentQuestion.round

\* C3: while a round is open, the Answer stored for an identity is never replaced
\* by another one, and receivedAnswerCount moves only when an identity that had no
\* Answer gets one
C3_FirstAnswerWins ==
    [][SameOpenRound =>
          /\ \A u \in DOMAIN CurrentAnswers :
                 u \in DOMAIN CurrentAnswers' => CurrentAnswers'[u] = CurrentAnswers[u]
          /\ currentQuizSession'.currentQuestion.receivedAnswerCount
                 # currentQuizSession.currentQuestion.receivedAnswerCount
               => DOMAIN CurrentAnswers' \ DOMAIN CurrentAnswers # {}]_vars

\* the step is mergeUsers returning after one of its statements has thrown
MergeUsersFailed(c) ==
    /\ c.pc = "mergeUsers" /\ c \notin submitCalls'
    /\ issued'.faults = issued.faults + 1

\* C9: when the durable merge fails, no in-memory merge is started, the
\* connection's session stays anonymous and its anonymous number stays reserved
C9_FailedMergeKeepsAnonymous ==
    [][\A c \in submitCalls :
          (MergeUsersFailed(c) /\ sessionObjects[c.session].isAnonymous) =>
              /\ mergeCalls' = mergeCalls
              /\ sessionObjects'[c.session] = sessionObjects[c.session]
              /\ usedAnonymousNumbers' = usedAnonymousNumbers]_vars

\* the score of an identity, 0 when it has no entry
ScoreOf(scores, id) == IF Has(scores, id) THEN scores[id].score ELSE 0

\* C10: an in-memory merge of an anonymous identity that has a score entry into
\* another identity leaves the authenticated identity with the sum of the two
\* scores and the anonymous identity without an entry; nothing else moves
C10_MergeConservesPoints ==
    [][\A m \in mergeCalls :
          (m \notin mergeCalls' /\ m.anonymousDbUserId # m.authenticatedDbUserId
             /\ Has(currentQuizSession.userScores, m.anonymousDbUserId)) =>
              LET before == currentQuizSession.userScores
                  after == currentQuizSession'.userScores
              IN  /\ Has(after, m.authenticatedDbUserId)
                  /\ after[m.authenticatedDbUserId].score =
                         before[m.anonymousDbUserId].score
                           + ScoreOf(before, m.authenticatedDbUserId)
                  /\ ~Has(after, m.anonymousDbUserId)
                  /\ \A id \in DOMAIN before \ {m.anonymousDbUserId, m.authenticatedDbUserId} :
                         Has(after, id) /\ after[id] = before[id]]_vars

\* C10 witness: the merge is done, the authenticated identity had no entry and
\* now holds the 150 points, the anonymous identity has none
C10_Witness ==
    /\ mergeCalls = {}
    /\ DOMAIN currentQuizSession.userScores = {2}
    /\ currentQuizSession.userScores[2].score = 150
    /\ currentQuizSession.userScores[2].twitchUserId = <<"U", "a">>

\* the step ends an endRound call on the round that is open, and not by a COMMIT
\* that returned: the client was not obtained, or the transaction was rolled back
FailedClose(c) ==
    /\ \A d \in endRoundCalls' : d.id # c.id
    /\ c.pc # "commit"
    /\ RoundOpen /\ c.round = currentQuizSession.currentQuestion.round

\* C11: when the persistence of a closing round fails, none of its rows is stored
\* and the round still closes in memory: no current question, its timer handle
\* dropped and not pending, one round-end broadcast
C11_FailedCloseStillCloses ==
    [][\A c \in endRoundCalls :
          FailedClose(c) =>
              /\ \A row \in responses' : row.batch # c.id
              /\ currentQuizSession'.currentQuestion = NoQuestion
              /\ currentQuizSession'.submissionWindowTimeout = NoTimer
              /\ currentQuizSession.submissionWindowTimeout \notin timers'
              /\ CountIn(log', "round-end") = Count("round-end") + 1]_vars

\* the rounds whose close was broadcast after its COMMIT returned
PersistedRounds == {e.round : e \in {x \in Events("round-end") : x.committed}}

\* the start-question broadcast that opened round r
Opening(r) == CHOOSE e \in Events("start-question") : e.round = r

\* the stored rows of round r for identity u
RowsOf(r, u) == {row \in responses : row.round = r /\ row.user_id = u}

\* C12: a round that closed with its COMMIT returned has exactly one stored row
\* for every identity with an Answer in it, that row carries the quiz instance and
\* the question of the round, and no other identity has a row of the round
C12_OneRowPerAnswer ==
    \A r \in PersistedRounds :
        /\ \A u \in DOMAIN answers[r] :
               /\ Cardinality(RowsOf(r, u)) = 1
               /\ \A row \in RowsOf(r, u) :
                      /\ row.quiz_instance_id = Opening(r).instance
                      /\ row.question_id = Opening(r).id
        /\ \A row \in responses : row.round = r => row.user_id \in DOMAIN answers[r]

\* the answer behind an entry of the results of endRound call c
AnswerBehind(c, k) == answers[c.round][c.results[k].userId]

\* p is the greatest integer that is at most a number given in half units
IsFloorOf(p, halves) == 2 * p <= halves /\ halves < 2 * p + 2

\* C13, as the code has it: every entry of calculateRoundResults has the floor of
\* the margin for the correct option, the floor of the negated margin for another
\* option, and 0 for the no-answer option -1
C13_PointsAreFlooredMargin ==
    \A c \in endRoundCalls : \A k \in 1..Len(c.results) :
        LET a == AnswerBehind(c, k)
            p == c.results[k].points
        IN  IF a.selectedOption = -1 THEN p = 0
            ELSE IF a.selectedOption = currentQuizSession.currentQuestion.correct_option
            THEN IsFloorOf(p, a.responseTime)
            ELSE IsFloorOf(p, 0 - a.responseTime)

\* C13 as stated: the points are the margin itself, or its negative
C13_PointsAreMargin ==
    \A c \in endRoundCalls : \A k \in 1..Len(c.results) :
        LET a == AnswerBehind(c, k)
            p == c.results[k].points
        IN  IF a.selectedOption = -1 THEN p = 0
            ELSE IF a.selectedOption = currentQuizSession.currentQuestion.correct_option
            THEN 2 * p = a.responseTime
            ELSE 2 * p = 0 - a.responseTime

\* C13 witness: user 1 was right with margin 700, user 2 wrong with margin 300.5
\* and user 3 sent no answer with margin 900: 700, -301 and 0 points
C13_Witness ==
    \E c \in endRoundCalls :
        /\ DOMAIN answers[c.round] = {1, 2, 3}
        /\ answers[c.round][1].selectedOption = 2 /\ answers[c.round][1].responseTime = 1400
        /\ answers[c.round][2].selectedOption = 0 /\ answers[c.round][2].responseTime = 601
        /\ answers[c.round][3].selectedOption = -1 /\ answers[c.round][3].responseTime = 1800
        /\ \E k \in 1..3 : c.results[k].userId = 1 /\ c.results[k].points = 700
        /\ \E k \in 1..3 : c.results[k].userId = 2 /\ c.results[k].points = -301
        /\ \E k \in 1..3 : c.results[k].userId = 3 /\ c.results[k].points = 0

\* the results of call c have one entry per answer and descend by points
OneEntryPerAnswerDescending(c) ==
    /\ Len(c.results) = Cardinality(DOMAIN answers[c.round])
    /\ {c.results[k].userId : k \in 1..Len(c.results)} = DOMAIN answers[c.round]
    /\ \A j, k \in 1..Len(c.results) :
           j < k => c.results[j].points >= c.results[k].points

\* C14, as the code has it: one entry per answer, points descending, and entries
\* with equal points in ascending order of user id, the order in which for-in
\* visits the integer keys of the answers object
C14_LeaderboardTiesByUserId ==
    \A c \in endRoundCalls :
        /\ OneEntryPerAnswerDescending(c)
        /\ \A j, k \in 1..Len(c.results) :
               (j < k /\ c.results[j].points = c.results[k].points)
                   => c.results[j].userId < c.results[k].userId

\* C14 as stated: entries with equal points in the order of submission
C14_LeaderboardTiesBySubmission ==
    \A c \in endRoundCalls :
        /\ OneEntryPerAnswerDescending(c)
        /\ \A j, k \in 1..Len(c.results) :
               (j < k /\ c.results[j].points = c.results[k].points)
                   => AnswerBehind(c, j).seq < AnswerBehind(c, k).seq

\* C14 witness: A (user 1) right with margin 900, B (user 2) wrong with margin 400,
\* C (user 3) no answer: the leaderboard is A 900, C 0, B -400
C14_Witness ==
    \E c \in endRoundCalls :
        /\ DOMAIN answers[c.round] = {1, 2, 3}
        /\ answers[c.round][1].selectedOption = 2 /\ answers[c.round][1].responseTime = 1800
        /\ answers[c.round][2].selectedOption = 0 /\ answers[c.round][2].responseTime = 800
        /\ answers[c.round][3].selectedOption = -1
        /\ [k \in 1..3 |-> << c.results[k].userId, c.results[k].points >>]
               = << <<1, 900>>, <<3, 0>>, <<2, -400>> >>

\* C15: while a round is open no step opens another one: no start-question is
\* broadcast, and the question, the answers object and the deadline of the open
\* round are not replaced
C15_NoOpenWhileOpen ==
    [][RoundOpen =>
          /\ CountIn(log', "start-question") = Count("start-question")
          /\ Len(answers') = Len(answers)
          /\ RoundOpen' =>
                 /\ currentQuizSession'.currentQuestion.round
                        = currentQuizSession.currentQuestion.round
                 /\ currentQuizSession'.submissionWindowTimeout
                        = currentQuizSession.submissionWindowTimeout]_vars

\* the step opens a round
AdvanceStep == CountIn(log', "start-question") > Count("start-question")

\* the number of questions of a quiz, none for the null quiz of an Idle session
QuestionCount(q) == IF q \in DOMAIN QuizQuestions THEN Len(QuizQuestions[q]) ELSE 0

\* C16: every step that opens a round opens it on the question at questionIndex
\* of the session's quiz, with its time limit, and moves questionIndex up by one;
\* questionIndex never exceeds the number of questions of the session's quiz
C16_AdvanceInOrder ==
    [][/\ AdvanceStep =>
              /\ currentQuizSession.questionIndex < QuestionCount(currentQuizSession.quizId)
              /\ LET question == QuizQuestions[currentQuizSession.quizId]
                                              [currentQuizSession.questionIndex + 1]
                 IN  /\ currentQuizSession'.currentQuestion.id = question.id
                     /\ currentQuizSession'.currentQuestion.time_limit = question.time_limit
              /\ currentQuizSession'.questionIndex = currentQuizSession.questionIndex + 1
       /\ currentQuizSession'.questionIndex <= QuestionCount(currentQuizSession'.quizId)
       /\ currentQuizSession'.questionIndex >= 0]_vars

\* the open round of the session is round r
IsOpen(r) == currentQuizSession.currentQuestion.round = r

\* C17: no round stays open forever: it is closed by its deadline, or a
\* deactivate or a new activation takes it away
C17_RoundEventuallyCloses ==
    \A r \in 1..MaxCommands : IsOpen(r) ~> ~IsOpen(r)

\* a step of a submit-answer handler
AnswerStep == submitCalls' # submitCalls \/ mergeCalls' # mergeCalls

\* C18: no step of a submit-answer handler closes the round, whatever the count
\* of answers: the round, its deadline timer and the closes in progress are as
\* before, and the count of answers never goes back
C18_AnswersNeverClose ==
    [][(RoundOpen /\ AnswerStep) =>
           LET question == currentQuizSession.currentQuestion
               after == currentQuizSession'.currentQuestion
           IN  /\ after # NoQuestion
               /\ after.round = question.round
               /\ after.expectedAnswerCount = question.expectedAnswerCount
               /\ currentQuizSession'.submissionWindowTimeout
                      = currentQuizSession.submissionWindowTimeout
               /\ timers' = timers
               /\ endRoundCalls' = endRoundCalls
               /\ after.receivedAnswerCount >= question.receivedAnswerCount]_vars

\* an answer was accepted after the expected count was reached, and the deadline
\* of the round is still pending
C18_Witness ==
    /\ RoundOpen
    /\ currentQuizSession.currentQuestion.expectedAnswerCount = 1
    /\ currentQuizSession.currentQuestion.receivedAnswerCount = 2
    /\ Cardinality(DOMAIN CurrentAnswers) = 2
    /\ \E t \in timers : /\ t.round = currentQuizSession.currentQuestion.round
                         /\ t = currentQuizSession.submissionWindowTimeout

\* the number a user row carries in its display name
NumberOf(u) == ParsedAnonymousNumber(u.display_name)

\* C19: the row created for a never-seen anonymous key carries the smallest
\* positive number that is not in use, and every positive number below
\* nextAnonymousNumber is in usedAnonymousNumbers
C19_SmallestUnusedNumber ==
    [][/\ \A u \in users' \ users :
              IsAnonymousKey(u.twitch_user_id) =>
                  /\ NumberOf(u) >= 1
                  /\ NumberOf(u) \notin usedAnonymousNumbers
                  /\ \A m \in 1..(NumberOf(u) - 1) : m \in usedAnonymousNumbers
       /\ \A m \in 1..(nextAnonymousNumber' - 1) : m \in usedAnonymousNumbers']_vars

\* the second half of C19 on its own
C19_BelowNextAllUsed ==
    \A m \in 1..(nextAnonymousNumber - 1) : m \in usedAnonymousNumbers

\* the anonymous number n is out of the used set and the next allocation can take it
Released(n) == n \notin usedAnonymousNumbers' /\ nextAnonymousNumber' <= n

\* C20: the number of an anonymous identity is released by the step in which the
\* connection that owns it disconnects, and by the step in which the identity is
\* merged into an authenticated one (its row leaves the users table), whether
\* submit-answer or merge-user does the merge
C20_NumberReleased ==
    [][/\ \A s \in Sockets :
              (/\ socketState[s] = "open" /\ socketState'[s] = "closed"
               /\ Has(socketUserMap, s)
               /\ sessionObjects[socketUserMap[s]].isAnonymous)
                  => Released(sessionObjects[socketUserMap[s]].anonymousNumber)
       /\ \A u \in users \ users' :
              IsAnonymousKey(u.twitch_user_id) => Released(NumberOf(u))]_vars

\* the release on disconnect on its own
C20_DisconnectReleases ==
    [][\A s \in Sockets :
           (/\ socketState[s] = "open" /\ socketState'[s] = "closed"
            /\ Has(socketUserMap, s)
            /\ sessionObjects[socketUserMap[s]].isAnonymous)
               => Released(sessionObjects[socketUserMap[s]].anonymousNumber)]_vars

\* the release by the merge inside submit-answer on its own
C20_SubmitMergeReleases ==
    [][\A u \in users \ users' :
           (IsAnonymousKey(u.twitch_user_id) /\ mergeUserCalls' = mergeUserCalls)
               => Released(NumberOf(u))]_vars

\* the cumulative score of an identity in a session; no entry reads as 0
SessionScore(session, u) ==
    IF Has(session.userScores, u) THEN session.userScores[u].score ELSE 0

ScoredIds == DOMAIN currentQuizSession.userScores \cup DOMAIN currentQuizSession'.userScores

\* the step stays inside one active session
WithinSession ==
    /\ currentQuizSession.quizId # 0
    /\ currentQuizSession'.quizId = currentQuizSession.quizId
    /\ currentQuizSession'.quizInstanceId = currentQuizSession.quizInstanceId

\* the points of an identity in the results of an endRound call
PointsIn(results, u) ==
    IF \E k \in 1..Len(results) : results[k].userId = u
    THEN results[CHOOSE k \in 1..Len(results) : results[k].userId = u].points
    ELSE 0

\* the step is the close of the open round by the one endRound call made for it,
\* and it adds the points of u in that round
ClosingAdds(u) ==
    \E c \in endRoundCalls :
        /\ c \notin endRoundCalls'
        /\ RoundOpen /\ c.round = currentQuizSession.currentQuestion.round
        /\ \A d \in endRoundCalls : d.round = c.round => d.id = c.id
        /\ SessionScore(currentQuizSession', u) - SessionScore(currentQuizSession, u)
               = PointsIn(c.results, u)

\* C21: inside a session a cumulative score changes only in the close of a round,
\* by the points of the identity in that round, or in a merge; the steps of
\* submit-answer, next-question, register-control-panel and disconnect change none
C21_ScoresChangeOnlyAtClose ==
    [][WithinSession =>
          /\ \A u \in ScoredIds :
                 SessionScore(currentQuizSession', u) # SessionScore(currentQuizSession, u)
                     => mergeCalls' # mergeCalls \/ ClosingAdds(u)
          /\ (\/ submitCalls' # submitCalls /\ mergeCalls' = mergeCalls
              \/ nextQuestionCalls' # nextQuestionCalls
              \/ socketState' # socketState
              \/ controlPanelSocketId' # controlPanelSocketId)
                 => currentQuizSession'.userScores = currentQuizSession.userScores]_vars

\* the step is the arrival of a submit-answer event
Submitted == issued'.sub = issued.sub + 1 /\ mergeUserCalls' = mergeUserCalls

\* the handler call that the arriving submit-answer has left suspended, if any
Admitted == {c \in submitCalls' : c.id = issued.sub + 1}

\* C22: a submission is let past the validation only in an active session with a
\* round open on its question id, with a response time other than 0 and an option
\* other than -1; one that is not let past leaves the answers, the count of
\* answers, the scores, the identity tables and the broadcasts as they were
C22_RejectedLeavesNoTrace ==
    [][Submitted =>
          /\ \A c \in Admitted :
                 /\ currentQuizSession.quizId # 0
                 /\ RoundOpen
                 /\ currentQuizSession.currentQuestion.id = c.questionId
                 /\ c.responseTime # 0
                 /\ c.selectedOption # -1
          /\ Admitted = {} =>
                 UNCHANGED << currentQuizSession, answers, users, responses,
                              socketUserMap, sessionObjects, usedAnonymousNumbers,
                              nextAnonymousNumber, submitCalls, log >>]_vars

\* a submission arrived while round 1 was open (its socket connected after the
\* round had opened, and the only commands so far are activate and next-question)
\* and nothing is left of it
C22_Witness ==
    /\ issued.cmd = 2 /\ issued.sub >= 1
    /\ currentQuizSession.quizId # 0
    /\ RoundOpen /\ Len(answers) = 1
    /\ currentQuizSession.currentQuestion.expectedAnswerCount = 0
    /\ currentQuizSession.currentQuestion.receivedAnswerCount = 0
    /\ CurrentAnswers = << >>
    /\ submitCalls = {} /\ users = {} /\ socketUserMap = << >>
    /\ Count("live-round-update") = 0

\* C23: no run of the submit-answer handler ends in an error that nothing catches
C23_SubmitNeverThrows ==
    \A e \in Events("uncaught") : e.where # "submit-answer"

\* the buckets of a tally are the options 0..3 and -1, and each holds the number
\* of the answers with its option: an answer with another option is in none
TallyOf(votes, as) ==
    /\ DOMAIN votes = VoteOptions
    /\ \A o \in VoteOptions :
           votes[o] = Cardinality({u \in DOMAIN as : as[u].selectedOption = o})

Unexpected(as) == {u \in DOMAIN as : as[u].selectedOption \notin VoteOptions}

\* the endRound call that the step has started, the live-round-update it has sent
Started == {c \in endRoundCalls' : issued'.fired = issued.fired + 1 /\ c.id = issued'.fired}
LiveSent == {e \in EventsIn(log', "live-round-update") : CopiesIn(e, log') > CopiesIn(e, log)}
Warned == CountIn(log', "warn") - Count("warn")

\* C24: the tally of endRound and the tally of a live-round-update have the
\* buckets 0..3 and -1 and count no answer with another option; endRound logs a
\* warning for each such answer, the live tally passes over it without a log
C24_UnexpectedOptionsUncounted ==
    [][/\ \A c \in Started :
              /\ TallyOf(c.votes, CurrentAnswers)
              /\ Warned = Cardinality(Unexpected(CurrentAnswers))
       /\ \A e \in LiveSent :
              /\ TallyOf(e.voteCounts, CurrentAnswers')
              /\ Warned = 0
       /\ \A e \in EventsIn(log', "round-end") :
              /\ DOMAIN e.optionVoteCounts = VoteOptions
              /\ \A o \in VoteOptions :
                     e.optionVoteCounts[o] <=
                         Cardinality({u \in DOMAIN answers'[e.round] :
                                         answers'[e.round][u].selectedOption = o})]_vars

\* C24 as stated: the live tally logs the answer it passes over, too
C24_UnexpectedOptionsLogged ==
    [][/\ \A c \in Started :
              /\ TallyOf(c.votes, CurrentAnswers)
              /\ Warned = Cardinality(Unexpected(CurrentAnswers))
       /\ \A e \in LiveSent :
              /\ TallyOf(e.voteCounts, CurrentAnswers')
              /\ Unexpected(CurrentAnswers') \ Unexpected(CurrentAnswers) # {}
                     => Warned > 0]_vars

\* an answer with option 7 went through a live-round-update and through the
\* tally of the endRound that closed its round
C24_Witness ==
    \E e \in Events("live-round-update"), r \in Events("round-end") :
        /\ r.round = e.round
        /\ \E k \in 1..Len(r.roundResults) :
               /\ Has(answers[r.round], r.roundResults[k].userId)
               /\ answers[r.round][r.roundResults[k].userId].selectedOption = 7
               /\ \E j \in 1..Len(e.roundResults) :
                      e.roundResults[j].userId = r.roundResults[k].userId
        /\ Count("warn") >= 1

\* the activate handler that the step has completed with its reply 200
Activated == {c \in activateCalls : c.pc = "commit" /\ \A d \in activateCalls' : d.id # c.id}

\* C25: when an activate completes, the session is active on a quiz instance that
\* exists and has not ended, at question index 0, with no scores, no round open and
\* no deadline timer pending, and the step has broadcast quiz-ready once
C25_ActivateStartsClean ==
    [][\A c \in Activated :
          /\ currentQuizSession'.quizId # 0
          /\ currentQuizSession'.quizInstanceId \in 1..Len(instances')
          /\ ~instances'[currentQuizSession'.quizInstanceId].ended
          /\ currentQuizSession'.questionIndex = 0
          /\ currentQuizSession'.userScores = << >>
          /\ currentQuizSession'.currentQuestion = NoQuestion
          /\ currentQuizSession'.submissionWindowTimeout = NoTimer
          /\ timers' = {}
          /\ CountIn(log', "quiz-ready") = Count("quiz-ready") + 1]_vars

\* the deactivate handler that the step has completed with its reply 200
Deactivated ==
    {c \in deactivateCalls :
        /\ \A d \in deactivateCalls' : d.id # c.id
        /\ CopiesIn(Reply("deactivate", 200), log') > CopiesIn(Reply("deactivate", 200), log)}

QuizEndSent == {e \in EventsIn(log', "quiz-end") : CopiesIn(e, log') > CopiesIn(e, log)}

IdleCommand ==
    /\ issued'.cmd = issued.cmd + 1
    /\ currentQuizSession.quizId = 0
    /\ activateCalls' = activateCalls

\* the step has sent the reply and nothing else
OnlyReplied(route, status) == log' = log (+) SetToBag({Reply(route, status)})

IdleFrame ==
    /\ currentQuizSession'.quizId = 0
    /\ currentQuizSession'.currentQuestion.round \in {0, currentQuizSession.currentQuestion.round}
    /\ nextQuestionCalls' = nextQuestionCalls /\ deactivateCalls' = deactivateCalls
    /\ endRoundCalls' = endRoundCalls
    /\ UNCHANGED << answers, instances, responses, users >>

Sent(type) == {e \in EventsIn(log', type) : CopiesIn(e, log') > CopiesIn(e, log)}

\* an event that goes to every connection and carries a correct option
TellsAll(e) == "to" \in DOMAIN e /\ e.to = "all" /\ "correctOption" \in DOMAIN e

\* C28: start-question goes to all without a correct option; the copy with the
\* correct option goes to the registered control panel socket and to no one else;
\* a round-end carries the correct option of the round that the same step closes;
\* so while a round is open no broadcast to all holds its correct option
C28_CorrectOptionWithheld ==
    [][/\ \A e \in Sent("start-question") :
              e.to = "all" /\ "correctOption" \notin DOMAIN e
       /\ \A e \in Sent("start-question-control-panel") :
              /\ e.to = controlPanelSocketId /\ e.to \notin {"", "all"}
              /\ e.id = currentQuizSession'.currentQuestion.id
              /\ e.correctOption = currentQuizSession'.currentQuestion.correct_option
       /\ \A e \in Sent("round-end") :
              /\ RoundOpen /\ ~RoundOpen'
              /\ e.question = currentQuizSession.currentQuestion.round
              /\ e.correctOption = currentQuizSession.currentQuestion.correct_option
       /\ RoundOpen' =>
              \A e \in BagToSet(log') :
                  TellsAll(e) =>
                      /\ e.type = "round-end"
                      /\ e.question # currentQuizSession'.currentQuestion.round]_vars

\* a round went from start-question, with the control panel's copy sent to the
\* registered socket, to the round-end that carries its correct option
C28_Witness ==
    /\ ~RoundOpen
    /\ \E s \in Events("start-question"), p \in Events("start-question-control-panel"),
          r \in Events("round-end") :
           /\ r.question = s.round /\ p.id = s.id
           /\ p.to = PanelSocket
           /\ p.correctOption = r.correctOption

\* the identities whose answer the step has stored in the open round
Stored ==
    IF /\ RoundOpen /\ RoundOpen'
       /\ currentQuizSession'.currentQuestion.round = currentQuizSession.currentQuestion.round
       /\ currentQuizSession'.currentQuestion.receivedAnswerCount =
              currentQuizSession.currentQuestion.receivedAnswerCount + 1
    THEN DOMAIN CurrentAnswers' \ DOMAIN CurrentAnswers
    ELSE {}

\* the identities listed in the results of a live-round-update
Listed(e) == {e.roundResults[k].userId : k \in 1..Len(e.roundResults)}

\* the live-round-update goes to the registered control panel socket, lists the
\* identities with an answer in the round and tallies their options
ShowsRound(e) ==
    /\ e.to = controlPanelSocketId /\ e.to \notin {"", "all"}
    /\ e.round = currentQuizSession'.currentQuestion.round
    /\ Listed(e) = DOMAIN CurrentAnswers'
    /\ TallyOf(e.voteCounts, CurrentAnswers')

\* C29: a stored answer produces one live-round-update when a control panel
\* socket is registered, addressed to that socket alone, listing the answer in its
\* results and counting it in the bucket of its option when that is one of 0..3;
\* with no control panel socket registered it produces a warning and no update;
\* and a live-round-update is sent by no other step
C29_StoredAnswerShownToPanel ==
    [][/\ LiveSent # {} => Stored # {}
       /\ Stored # {} =>
              /\ Cardinality(Stored) = 1
              /\ IF controlPanelSocketId # ""
                 THEN /\ CountIn(log', "live-round-update") = Count("live-round-update") + 1
                      /\ Warned = 0
                      /\ \A e \in LiveSent : ShowsRound(e)
                 ELSE /\ CountIn(log', "live-round-update") = Count("live-round-update")
                      /\ Warned = 1]_vars

\* C29 as stated: every stored answer produces one live-round-update whose
\* results and vote counts include it
C29_EveryStoredAnswerShown ==
    [][Stored # {} =>
           /\ CountIn(log', "live-round-update") = Count("live-round-update") + 1
           /\ \A e \in LiveSent :
                  /\ e.to \notin {"", "all"}
                  /\ \A u \in Stored :
                         /\ u \in Listed(e)
                         /\ Has(e.voteCounts, CurrentAnswers'[u].selectedOption)
                         /\ e.voteCounts[CurrentAnswers'[u].selectedOption] >= 1]_vars

\* two answers of a round were stored with the control panel registered, each
\* with its live-round-update, the second listing both
C29_Witness ==
    \E e \in Events("live-round-update"), f \in Events("live-round-update") :
        /\ e.round = f.round /\ e.to = PanelSocket /\ f.to = PanelSocket
        /\ Len(e.roundResults) = 1 /\ Len(f.roundResults) = 2
        /\ Listed(e) \subseteq Listed(f)

\* the merge-user call that the step has ended on finding its two ids equal
SameMergeUser ==
    {c \in mergeUserCalls :
        /\ c.pc = "selectReal"
        /\ \A d \in mergeUserCalls' : d.id # c.id}

\* the submit-answer call in the merge scenario whose findOrCreateUser has, in
\* the step, returned the id that its session holds already
SameSubmit ==
    {c \in submitCalls :
        /\ c.pc = "updateUser" /\ c.merging
        /\ sessionObjects[c.session].dbUserId = c.dbUserId
        /\ \A d \in submitCalls' : d.id # c.id}

\* the scores of the session and the answers of the rounds are as before, but
\* for an answer stored under the identity u
KeepsScoresAndAnswers(u) ==
    /\ currentQuizSession'.userScores = currentQuizSession.userScores
    /\ Len(answers') = Len(answers)
    /\ \A r \in 1..Len(answers) :
           /\ DOMAIN answers[r] \subseteq DOMAIN answers'[r]
           /\ DOMAIN answers'[r] \subseteq DOMAIN answers[r] \cup {u}
           /\ \A v \in DOMAIN answers[r] : answers'[r][v] = answers[r][v]

\* the mergeInMemoryData call, made with the same id twice, that the step has run
SameInMemory ==
    {m \in mergeCalls :
        /\ m.anonymousDbUserId = m.authenticatedDbUserId
        /\ m \notin mergeCalls'}

\* C30: a merge of an identity with itself changes nothing: the step in which
\* merge-user finds its two ids equal, the step in which submit-answer in the
\* merge scenario finds the id of its session equal to the authenticated id, and
\* the step in which mergeInMemoryData runs with the same id twice, leave the
\* users and the responses, the scores of the session, the answers of the rounds
\* (but for the answer the submission itself stores) and the used anonymous
\* numbers as they were
C30_SameIdentityMergeChangesNothing ==
    [][/\ \A c \in SameMergeUser :
              /\ users' = users /\ responses' = responses
              /\ KeepsScoresAndAnswers(0) /\ answers' = answers
              /\ usedAnonymousNumbers' = usedAnonymousNumbers
       /\ \A c \in SameSubmit :
              /\ users' = users /\ responses' = responses
              /\ KeepsScoresAndAnswers(c.dbUserId)
              /\ usedAnonymousNumbers' = usedAnonymousNumbers
       /\ \A m \in SameInMemory :
              /\ users' = users /\ responses' = responses
              /\ KeepsScoresAndAnswers(0) /\ answers' = answers
              /\ usedAnonymousNumbers' = usedAnonymousNumbers]_vars

\* C31: while a round is open, receivedAnswerCount is the number of the entries
\* of the answers of the round
C31_CountIsAnswers ==
    RoundOpen =>
        currentQuizSession.currentQuestion.receivedAnswerCount =
            Cardinality(DOMAIN CurrentAnswers)

\* C32: a round is open only in an active session: currentQuestion is non-null
\* only if quizId is non-null
C32_RoundOnlyWhenActive ==
    RoundOpen => currentQuizSession.quizId # 0

\* C33: at most one deadline timer is pending; a timer is pending only while a
\* round is open, and while a round is open its timer is pending or has fired
\* and its endRound is running; the session holds the handle of every pending
\* timer
C33_OneTimerWithOpenRound ==
    /\ Cardinality(timers) <= 1
    /\ timers # {} => RoundOpen
    /\ RoundOpen => (timers # {} \/ endRoundCalls # {})
    /\ \A t \in timers : t = currentQuizSession.submissionWindowTimeout

\* the sockets whose entry of socketUserMap is an anonymous session, and the
\* anonymous number such a session holds
AnonymousEntries ==
    {s \in DOMAIN socketUserMap : sessionObjects[socketUserMap[s]].isAnonymous}
HeldNumber(s) == sessionObjects[socketUserMap[s]].anonymousNumber

\* C34: no two anonymous sessions of socketUserMap hold the same anonymous
\* number, and usedAnonymousNumbers is the set of the numbers they hold
C34_NumbersAreTheSessions ==
    /\ \A s, t \in AnonymousEntries : s # t => HeldNumber(s) # HeldNumber(t)
    /\ usedAnonymousNumbers = {HeldNumber(s) : s \in AnonymousEntries}

\* the identities whose row the durable merge has deleted
Retired == {u \in 1..(nextUserId - 1) : UsersWithId(u) = {}}

\* C35: once the durable merge of an anonymous identity has committed, no step
\* adds to the score of the session under the retired id or persists a response
\* row under it
C35_NothingUnderRetiredIdentity ==
    [][\A u \in Retired :
           /\ SessionScore(currentQuizSession', u) <= SessionScore(currentQuizSession, u)
           /\ \A r \in responses' \ responses : r.user_id # u]_vars

\* the score that an object of cumulative scores holds for u; no entry reads as 0
ScoreAmong(scores, u) == IF Has(scores, u) THEN scores[u].score ELSE 0

\* the endRound call that the step has ended with its round-end broadcast
Closed ==
    {c \in endRoundCalls :
        /\ \A d \in endRoundCalls' : d.id # c.id
        /\ CountIn(log', "round-end") = Count("round-end") + 1}

\* what the close c has added to the score of u since endRound started
Gain(c, u) == SessionScore(currentQuizSession', u) - ScoreAmong(c.before, u)

\* the cumulative scores in the round-end e are the scores from before the close
\* c plus, when added is true, the points in the round results of e
Carries(e, c, added) ==
    \A k \in 1..Len(e.roundResults) :
        ScoreAmong(e.userScores, e.roundResults[k].userId) =
            ScoreAmong(c.before, e.roundResults[k].userId)
                + (IF added THEN e.roundResults[k].points ELSE 0)

\* C36: when a round closes, either every identity of its results has had exactly
\* its round points added to its cumulative score, and the scores in round-end
\* are the scores from before the close plus the points of the same broadcast, or
\* no identity has had anything added and round-end carries the scores from before
C36_ScoresAllOrNone ==
    [][\A c \in Closed :
           \/ /\ \A k \in 1..Len(c.results) :
                     Gain(c, c.results[k].userId) = c.results[k].points
              /\ \A e \in Sent("round-end") : Carries(e, c, TRUE)
           \/ /\ \A k \in 1..Len(c.results) : Gain(c, c.results[k].userId) = 0
              /\ \A e \in Sent("round-end") : Carries(e, c, FALSE)]_vars

\* the points of the round results of c do not reward a selection other than
\* correctOption and do not charge the selection of correctOption
PointsFollowSelection(c, as, correctOption) ==
    \A k \in 1..Len(c.results) :
        LET answer == as[c.results[k].userId]
        IN  IF answer.selectedOption = correctOption
            THEN c.results[k].points >= 0
            ELSE c.results[k].points <= 0

\* the round points that endRound adds to the cumulative scores follow the
\* selection
C37_ScoreFollowsSelection ==
    [][\A c \in Started :
           PointsFollowSelection(c, CurrentAnswers,
               currentQuizSession.currentQuestion.correct_option)]_vars

\* C37: every recorded answer has a strictly positive response time, and the
\* points that a round adds to the cumulative score of an identity are not
\* positive for an incorrect selection and not negative for a correct one
C37_MarginPositive ==
    [][/\ \A r \in 1..Len(answers') : \A u \in DOMAIN answers'[r] :
              answers'[r][u].responseTime > 0
       /\ \A c \in Started :
              PointsFollowSelection(c, CurrentAnswers,
                  currentQuizSession.currentQuestion.correct_option)]_vars

\* the correct option of the question with the given id
CorrectOptionOf(questionId) ==
    LET rows == UNION {{QuizQuestions[z][k] : k \in 1..Len(QuizQuestions[z])} :
                           z \in DOMAIN QuizQuestions}
    IN  (CHOOSE q \in rows : q.id = questionId).correct_option

\* C38: every persisted response row has is_correct true exactly when its
\* selected option is the correct option of its question
C38_IsCorrectIsTheSelection ==
    \A r \in responses :
        r.is_correct = (r.selected_option = CorrectOptionOf(r.question_id))

\* the sum of the buckets of a tally
RECURSIVE SumOfBuckets(_, _)
SumOfBuckets(votes, buckets) ==
    IF buckets = {} THEN 0
    ELSE LET o == CHOOSE x \in buckets : TRUE
         IN  votes[o] + SumOfBuckets(votes, buckets \ {o})

\* C39: when endRound closes a round, the buckets of its vote counts sum to the
\* number of the answers recorded in the round, which is the number of the
\* entries of its round results
C39_BucketsSumToAnswers ==
    [][\A c \in Started :
           /\ SumOfBuckets(c.votes, DOMAIN c.votes) = Cardinality(DOMAIN CurrentAnswers)
           /\ Len(c.results) = Cardinality(DOMAIN CurrentAnswers)]_vars

\* the activate calls for an id that no quiz has, which end with the reply 404:
\* those that the step has started and those that it has ended
RefusedStarted ==
    {c \in activateCalls' : /\ \A d \in activateCalls : d.id # c.id
                            /\ c.quizId \notin DOMAIN QuizQuestions}
RefusedEnded ==
    {c \in activateCalls : /\ \A d \in activateCalls' : d.id # c.id
                           /\ c.quizId \notin DOMAIN QuizQuestions}

\* C40: no step of an activate that fails because no quiz has the id changes the
\* session: the quiz, the instance, the question index, the scores, the open
\* round and the pending timer stay as they are
C40_FailedActivateKeepsSession ==
    [][RefusedStarted \cup RefusedEnded # {} =>
           /\ currentQuizSession' = currentQuizSession
           /\ timers' = timers]_vars

====
